---- MODULE Spec2Model ----
(***************************************************************************)
(* Verification model of the sf-processor policy interpreter (worker pool, *)
(* filters and rules, alert / enrich mode), of the policy engine dispatch  *)
(* loop with hot reload, and of the rotation-aware log file stream.        *)
(***************************************************************************)
EXTENDS Integers, Sequences, FiniteSets, TLC

(***************************************************************************)
(* Bounds of the model.                                                    *)
(***************************************************************************)
\* number of records the callers create (ProcessAsync / Process / dispatch)
MaxRecords == 2
\* largest configured worker pool size (Config.Concurrency)
MaxConcurrency == 2

\* the interpreters: 1 is the one compiled at start-up, 2 the one the
\* policy monitor compiles after a change of the policy directory
Interps == {1, 2}
Workers == 1..MaxConcurrency

\* the attribute value a record carries; predicates are functions of it
RecVals == 0..2

AlertMode == "alert"
EnrichMode == "enrich"

(***************************************************************************)
(* Predicates, rules, filters.                                             *)
(***************************************************************************)
\* A compiled predicate func(R) (bool, error) is given by the set of record
\* values on which its boolean is true and the set on which its error is
\* non-nil.
Cond(t, e) == [t |-> t, e |-> e]

\* Criterion.Eval: the pair (bool, error) the predicate returns on value v
Eval(c, v) == [res |-> v \in c.t, err |-> v \in c.e]

Filter(name, c, en) == [Name |-> name, condition |-> c, Enabled |-> en]

Rule(name, c, en, prio) ==
    [Name |-> name, condition |-> c, Enabled |-> en, Priority |-> prio,
     Tags |-> {name}, Actions |-> <<>>]

\* The compiled policy sets the interpreters are constructed with: two
\* filters and two rules over overlapping value sets; every combination of
\* the filters' enabled flags, the second rule enabled, the first enabled
\* or disabled.  The first filter returns its boolean with an error on
\* value 0, the first rule on value 1.
Policies ==
    { [filters |-> << Filter("f1", Cond({0}, {0}), a),
                      Filter("f2", Cond({0, 1}, {}), b) >>,
       rules   |-> << Rule("r1", Cond({1, 2}, {1}), c, "medium"),
                      Rule("r2", Cond({2}, {}), d, "low") >>] :
      a \in BOOLEAN, b \in BOOLEAN, c \in BOOLEAN, d \in {TRUE} }

\* the policy sets the policy monitor compiles after a change: all filters
\* switched on or all switched off
ReloadPolicies ==
    {p \in Policies : /\ p.rules[1].Enabled
                      /\ p.filters[1].Enabled = p.filters[2].Enabled}

(***************************************************************************)
(* The log file stream: bounds and constants.                              *)
(***************************************************************************)
\* payload bytes the log writer appends in total
MaxPayload == 2
\* times the log file is renamed away (rotated or removed)
MaxRotations == 1
\* times the log file is truncated
MaxTruncs == 1
\* goroutines one stream starts
MaxGor == 3

Inodes == 1..(MaxRotations + 1)
Gors == 1..MaxGor

\* defaultReadBufferSize
ReadBufferSize == 4096

\* bytes of a log file: the newline, the carriage return, and payload
\* bytes (ASCII), numbered 1, 2, ... in the order in which they are written
NL == 0
CR == -1
\* the two bytes of the UTF-8 encoding of a rune outside ASCII, that rune,
\* and utf8.RuneError
LEAD == -2
CONT == -3
RuneE == -4
RuneError == -5
\* bytes the log writer appends in the behaviours that are about decoding
MaxBytes == 4

\* a goroutine that has not been started
NoGor == [pc |-> "none", fd |-> 0, fi |-> 0, off |-> 0, partial |-> <<>>, newfi |-> 0,
          serr |-> FALSE]

\* the rules and filters of an interpreter before Compile
NoPolicy == [filters |-> <<>>, rules |-> <<>>]

(***************************************************************************)
(* Functional predicates (Criterion) and their combinators.                *)
(***************************************************************************)
\* the records a criterion is evaluated on
CritRecs == 0..1

\* error values: ErrNil is the nil error
ErrNil == 0
Errs == {ErrNil, 1, 2}

\* what the evaluation of a predicate on one record yields: the pair
\* (bool, error)
Outcomes == [res : BOOLEAN, err : Errs]

\* the predicate functions: one outcome per record
Preds == [CritRecs -> Outcomes]

\* A Criterion is given by what its evaluation on each record yields: the
\* pair (bool, error) and the leaf predicates called, in call order.
Criterion(id, pred) ==
    [r \in CritRecs |-> [res |-> pred[r].res, err |-> pred[r].err, calls |-> <<id>>]]

\* Criterion.Eval: c.Pred(r)
CritEval(c, r) == c[r]

\* the (bool, error) part of an evaluation
Returned(e) == [res |-> e.res, err |-> e.err]

True == Criterion("True", [r \in CritRecs |-> [res |-> TRUE, err |-> ErrNil]])

False == Criterion("False", [r \in CritRecs |-> [res |-> FALSE, err |-> ErrNil]])

\* variant: the conjunction is the boolean of the receiver alone
AndFirstOnly(c, cr) ==
    [r \in CritRecs |-> [res |-> c[r].res, err |-> c[r].err, calls |-> c[r].calls]]

\* Criterion.And: b1, err = c.Eval(r); if err != nil, b2, err = c.Eval(r)
\* and, if err != nil again, return b1 && b2, err; otherwise return false, err
And(c, cr) ==
    [r \in CritRecs |->
        LET e1 == CritEval(c, r)
        IN IF e1.err # ErrNil
           THEN LET e2 == CritEval(c, r)
                IN IF e2.err # ErrNil
                   THEN [res |-> e1.res /\ e2.res, err |-> e2.err,
                         calls |-> e1.calls \o e2.calls]
                   ELSE [res |-> FALSE, err |-> e2.err,
                         calls |-> e1.calls \o e2.calls]
           ELSE [res |-> FALSE, err |-> e1.err, calls |-> e1.calls]]

\* Criterion.Or: as And, with b1 || b2
Or(c, cr) ==
    [r \in CritRecs |->
        LET e1 == CritEval(c, r)
        IN IF e1.err # ErrNil
           THEN LET e2 == CritEval(c, r)
                IN IF e2.err # ErrNil
                   THEN [res |-> e1.res \/ e2.res, err |-> e2.err,
                         calls |-> e1.calls \o e2.calls]
                   ELSE [res |-> FALSE, err |-> e2.err,
                         calls |-> e1.calls \o e2.calls]
           ELSE [res |-> FALSE, err |-> e1.err, calls |-> e1.calls]]

\* Criterion.Not: res, err = c.Eval(r); if err != nil return !res, err;
\* otherwise return false, err
Not(c) ==
    [r \in CritRecs |->
        LET e == CritEval(c, r)
        IN IF e.err # ErrNil
           THEN [res |-> ~e.res, err |-> e.err, calls |-> e.calls]
           ELSE [res |-> FALSE, err |-> e.err, calls |-> e.calls]]

\* Operations.All: all := True; for each c, all = all.And(c)
RECURSIVE AllFrom(_, _)
AllFrom(all, criteria) ==
    IF criteria = <<>> THEN all
    ELSE AllFrom(And(all, Head(criteria)), Tail(criteria))

All(criteria) == AllFrom(True, criteria)

\* Operations.Any (the name Any is taken by the TLC module): any := False;
\* for each c, any = any.Or(c)
RECURSIVE AnyFrom(_, _)
AnyFrom(any, criteria) ==
    IF criteria = <<>> THEN any
    ELSE AnyFrom(Or(any, Head(criteria)), Tail(criteria))

AnyOf(criteria) == AnyFrom(False, criteria)

\* no operation applied yet
NoCall == [op |-> "none"]

(***************************************************************************)
(* Strings, the field mapper and the comparison operations.                *)
(***************************************************************************)
\* longest string of the model
MaxStrLen == 2

\* LISTSEP, a quote, and two letters that differ only in case
LISTSEP == ","
QUOTE == "'"
Chars == {"a", "A", LISTSEP, QUOTE}

\* strings are sequences of characters
Strs == UNION {[1..n -> Chars] : n \in 0..MaxStrLen}

\* the registered attribute names (FieldMapper.Mappers): one string-valued
\* attribute, named "a"
Mappers == {<<"a">>}

\* the records: the value of each registered attribute
Records == [Mappers -> Strs]

\* strings.Split(s, LISTSEP): the pieces between separators, cur being the
\* piece collected so far
RECURSIVE SplitFrom(_, _)
SplitFrom(s, cur) ==
    IF s = <<>> THEN <<cur>>
    ELSE IF Head(s) = LISTSEP THEN <<cur>> \o SplitFrom(Tail(s), <<>>)
    ELSE SplitFrom(Tail(s), Append(cur, Head(s)))

Split(s) == SplitFrom(s, <<>>)

\* strings.ToLower
ToLower(s) == [k \in DOMAIN s |-> IF s[k] = "A" THEN "a" ELSE s[k]]

\* strings.HasPrefix, strings.HasSuffix, strings.Contains
HasPrefix(l, r) == Len(r) <= Len(l) /\ SubSeq(l, 1, Len(r)) = r

HasSuffix(l, r) == Len(r) <= Len(l) /\ SubSeq(l, Len(l) - Len(r) + 1, Len(l)) = r

StrContains(l, r) ==
    \E i \in 0..Len(l) : i + Len(r) <= Len(l) /\ SubSeq(l, i + 1, i + Len(r)) = r

\* the names of the operators of ops
OpNames == {"eq", "contains", "icontains", "startswith", "endswith"}

\* ops: the boolean comparison operators over strings
Ops(op, l, r) ==
    CASE op = "eq" -> l = r
      [] op = "contains" -> StrContains(l, r)
      [] op = "icontains" -> StrContains(ToLower(l), ToLower(r))
      [] op = "startswith" -> HasPrefix(l, r)
      [] op = "endswith" -> HasSuffix(l, r)

\* variant: only the left value is split
RECURSIVE evalLeftSplit(_, _, _, _, _)
evalLeftSplit(lattrs, rattrs, i, j, op) ==
    IF i > Len(lattrs) THEN FALSE
    ELSE IF Ops(op, lattrs[i], rattrs) THEN TRUE
    ELSE evalLeftSplit(lattrs, rattrs, i + 1, 1, op)

\* the loops of eval over the pieces of both values, from the pair (i, j) on
RECURSIVE evalFrom(_, _, _, _, _)
evalFrom(lattrs, rattrs, i, j, op) ==
    IF i > Len(lattrs) THEN FALSE
    ELSE IF j > Len(rattrs) THEN evalFrom(lattrs, rattrs, i + 1, 1, op)
    ELSE IF Ops(op, lattrs[i], rattrs[j]) THEN TRUE
    ELSE evalFrom(lattrs, rattrs, i, j + 1, op)

\* variant of eval that splits the left value only
evalNoRightSplit(l, r, op) == evalLeftSplit(Split(l), r, 1, 1, op)

\* eval: both values are split on LISTSEP; true at the first pair of pieces
\* the operator holds of
eval(l, r, op) == evalFrom(Split(l), Split(r), 1, 1, op)

\* trimBoundingQuotes: a leading and a trailing quote are removed
TrimBoundingQuotes(s) ==
    LET t == IF s # <<>> /\ Head(s) = QUOTE THEN Tail(s) ELSE s
    IN IF t # <<>> /\ t[Len(t)] = QUOTE THEN SubSeq(t, 1, Len(t) - 1) ELSE t

\* FieldMapper.Map: the value of a registered attribute, the name itself
\* otherwise
Map(attr, r) == IF attr \in Mappers THEN r[attr] ELSE attr

\* FieldMapper.MapStr for string values (names hold no '[')
MapStr(attr, r) == TrimBoundingQuotes(Map(attr, r))

\* Eq, StartsWith, EndsWith, Contains, IContains: eval on the mapped values
\* of both attributes
Eq(lattr, rattr, r) == eval(MapStr(lattr, r), MapStr(rattr, r), "eq")

StartsWith(lattr, rattr, r) == eval(MapStr(lattr, r), MapStr(rattr, r), "startswith")

EndsWith(lattr, rattr, r) == eval(MapStr(lattr, r), MapStr(rattr, r), "endswith")

Contains(lattr, rattr, r) == eval(MapStr(lattr, r), MapStr(rattr, r), "contains")

IContains(lattr, rattr, r) == eval(MapStr(lattr, r), MapStr(rattr, r), "icontains")

\* the loop of In and PMatch over the list from position k on
RECURSIVE ListFrom(_, _, _, _, _)
ListFrom(attr, list, k, r, op) ==
    IF k > Len(list) THEN FALSE
    ELSE IF eval(MapStr(attr, r), list[k], op) THEN TRUE
    ELSE ListFrom(attr, list, k + 1, r, op)

\* variant: In compares with contains
InContains(attr, list, r) == ListFrom(attr, list, 1, r, "contains")

\* In: eq of the mapped value against the list elements
In(attr, list, r) == ListFrom(attr, list, 1, r, "eq")

\* PMatch: contains of the mapped value against the list elements
PMatch(attr, list, r) == ListFrom(attr, list, 1, r, "contains")

(***************************************************************************)
(* The policy compiler: policy files, lists, macros, the listener.         *)
(***************************************************************************)
\* number of definitions, filters and rules in a policy file
FileLen == 3
\* largest number of paths given to Compile
MaxPaths == 2

\* the names of the lists and of the macros the policies define
ListIds == {<<"L">>, <<"M">>}
MacroIds == {<<"m">>, <<"n">>}

\* a string literal in quotes
Quoted(s) == <<QUOTE>> \o s \o <<QUOTE>>

\* the terms of the policy language the model covers: a reference to a
\* macro by name, and  lop IN (atoms)
RefTerm(id) == [t |-> "ref", id |-> id]

InTerm(atoms) == [t |-> "in", lop |-> <<"a">>, atoms |-> atoms]

\* the items of a policy file (the expression of a macro, filter or rule is
\* one term)
Plist(id, atoms) == [kind |-> "list", id |-> id, atoms |-> atoms]

Pmacro(id, expr) == [kind |-> "macro", id |-> id, expr |-> expr]

Pfilter(expr) == [kind |-> "filter", expr |-> expr]

Prule(expr) == [kind |-> "rule", expr |-> expr]

\* the atoms written in the list definitions
ListBodies ==
    { << <<"A">> >>, << Quoted(<<"L">>) >>, << <<"a">>, <<"M">> >> }

\* the expressions written in the macros, the rules and the filters
MacroExprs == { InTerm(<< <<"L">> >>), RefTerm(<<"n">>) }

RuleExprs ==
    { InTerm(<< <<"L">> >>), InTerm(<< Quoted(<<"L">>), <<"M">> >>), RefTerm(<<"m">>) }

FilterExprs == { RefTerm(<<"m">>) }

PolicyItems ==
    {Plist(id, b) : id \in ListIds, b \in ListBodies}
        \cup {Pmacro(id, e) : id \in MacroIds, e \in MacroExprs}
        \cup {Prule(e) : e \in RuleExprs}
        \cup {Pfilter(e) : e \in FilterExprs}

\* the policy files: every sequence of FileLen items
PolicyFiles == [1..FileLen -> PolicyItems]

\* the strings of a sequence joined with LISTSEP
RECURSIVE Join(_)
Join(ss) ==
    IF ss = <<>> THEN <<>>
    ELSE IF Len(ss) = 1 THEN Head(ss)
    ELSE Head(ss) \o <<LISTSEP>> \o Join(Tail(ss))

\* ctx.Items().GetText(): the text of the tokens of a bracketed item list
ItemsText(atoms) == <<"[">> \o Join(atoms) \o <<"]">>

\* the position of the last "]" of a string (0: none)
RECURSIVE LastBracket(_, _)
LastBracket(s, k) ==
    IF k = 0 THEN 0 ELSE IF s[k] = "]" THEN k ELSE LastBracket(s, k - 1)

\* itemsre.ReplaceAllString(str, "$2"): the opening bracket and the last
\* closing bracket of the text are removed
StripBrackets(str) ==
    IF str # <<>> /\ Head(str) = "[" /\ LastBracket(str, Len(str)) > 1
    THEN SubSeq(str, 2, LastBracket(str, Len(str)) - 1)
             \o SubSeq(str, LastBracket(str, Len(str)) + 1, Len(str))
    ELSE str

\* extractList: the text without brackets is split on LISTSEP and each piece
\* loses its bounding quotes
extractList(str) ==
    [k \in DOMAIN Split(StripBrackets(str)) |->
        TrimBoundingQuotes(Split(StripBrackets(str))[k])]

\* extractListFromItems
extractListFromItems(atoms) == extractList(ItemsText(atoms))

\* a map with key k set to v
Put(map, k, v) == [x \in DOMAIN map \cup {k} |-> IF x = k THEN v ELSE map[x]]

\* the outcome of a recursive expansion: a value, or no value when the
\* recursion does not end (the goroutine stack overflows)
Ok(v) == [ok |-> TRUE, val |-> v]
Overflow == [ok |-> FALSE, val |-> <<>>]

\* reduceList and the loops over the strings it is called on: a string
\* that names a list is replaced by the reduction of the list's items, any
\* other string loses its bounding quotes.  depth counts the nested calls; a
\* nesting deeper than the number of lists goes through some list twice, and
\* so never ends.
RECURSIVE reduceList(_, _, _)
RECURSIVE reduceEach(_, _, _)
reduceList(sl, lists, depth) ==
    IF sl \in DOMAIN lists
    THEN IF depth >= Cardinality(DOMAIN lists) THEN Overflow
         ELSE reduceEach(lists[sl], lists, depth + 1)
    ELSE Ok(<< TrimBoundingQuotes(sl) >>)

reduceEach(vs, lists, depth) ==
    IF vs = <<>> THEN Ok(<<>>)
    ELSE LET h == reduceList(Head(vs), lists, depth)
             t == reduceEach(Tail(vs), lists, depth)
         IN IF h.ok /\ t.ok THEN Ok(h.val \o t.val) ELSE Overflow

\* extractListFromAtoms
extractListFromAtoms(ctxs, lists) == reduceEach(ctxs, lists, 0)

\* the compiled predicates, as terms: In(lop, list), False, All and Any
\* of a sequence of predicates
InPred(lop, list) == [op |-> "In", lop |-> lop, list |-> list]
FalsePred == [op |-> "False"]
AllPred(cs) == [op |-> "All", args |-> cs]
AnyPred(cs) == [op |-> "Any", args |-> cs]

\* visitExpression and visitTerm: a macro reference is replaced by the
\* compilation of the macro's expression (False when the name is unknown),
\* an IN term becomes In over the reduced atoms; the expression is the Any
\* of the All of its terms.  A nesting of macros deeper than the number of
\* macros never ends.
RECURSIVE visitExpression(_, _, _, _)
RECURSIVE visitTerm(_, _, _, _)
visitExpression(expr, lists, macroCtxs, depth) ==
    LET c == visitTerm(expr, lists, macroCtxs, depth)
    IN IF c.ok THEN Ok(AnyPred(<< AllPred(<< c.val >>) >>)) ELSE Overflow

visitTerm(term, lists, macroCtxs, depth) ==
    IF term.t = "ref"
    THEN IF term.id \in DOMAIN macroCtxs
         THEN IF depth >= Cardinality(DOMAIN macroCtxs) THEN Overflow
              ELSE visitExpression(macroCtxs[term.id], lists, macroCtxs, depth + 1)
         ELSE Ok(FalsePred)
    ELSE LET l == extractListFromAtoms(term.atoms, lists)
         IN IF l.ok THEN Ok(InPred(term.lop, l.val)) ELSE Overflow

\* the interpreter NewPolicyInterpreter returns: no list, no macro, no
\* filter, no rule
NewPolicyInterpreter ==
    [lists |-> <<>>, macroCtxs |-> <<>>, filters |-> <<>>, rules |-> <<>>,
     fatal |-> FALSE]

\* ExitPlist, ExitPmacro
ExitPlist(pi, ctx) ==
    [pi EXCEPT !.lists = Put(@, ctx.id, extractListFromItems(ctx.atoms))]

ExitPmacro(pi, ctx) ==
    [pi EXCEPT !.macroCtxs = Put(@, ctx.id, ctx.expr)]

\* ExitPfilter, ExitPrule: the expression is compiled and the filter or rule
\* appended
ExitPfilter(pi, ctx) ==
    LET c == visitExpression(ctx.expr, pi.lists, pi.macroCtxs, 0)
    IN IF c.ok THEN [pi EXCEPT !.filters = Append(@, Filter("f", c.val, TRUE))]
       ELSE [pi EXCEPT !.fatal = TRUE]

ExitPrule(pi, ctx) ==
    LET c == visitExpression(ctx.expr, pi.lists, pi.macroCtxs, 0)
    IN IF c.ok THEN [pi EXCEPT !.rules = Append(@, Rule("r", c.val, TRUE, "low"))]
       ELSE [pi EXCEPT !.fatal = TRUE]

\* what the walk over p.Defs() calls for an item: the tree holds the lists
\* and the macros only
ExitDefs(pi, ctx) ==
    CASE ctx.kind = "list" -> ExitPlist(pi, ctx)
      [] ctx.kind = "macro" -> ExitPmacro(pi, ctx)
      [] OTHER -> pi

\* what the walk over p.Policy() calls for an item
ExitPolicy(pi, ctx) ==
    CASE ctx.kind = "list" -> ExitPlist(pi, ctx)
      [] ctx.kind = "macro" -> ExitPmacro(pi, ctx)
      [] ctx.kind = "filter" -> ExitPfilter(pi, ctx)
      [] ctx.kind = "rule" -> ExitPrule(pi, ctx)

VARIABLES
    mode,        \* pi.mode (Config.Mode), shared by the interpreters of one engine
    concurrency, \* pi.concurrency (Config.Concurrency)
    outSet,      \* pi.out != nil
    policy,      \* policy[i]: pi.filters and pi.rules of interpreter i
    workerCh,    \* workerCh[i]: [st: "nil" | "open" | "closed", buf: queued record ids]
    wg,          \* wg[i]: counter of the wait group of interpreter i
    wpc,         \* wpc[i][w]: position of worker goroutine w of interpreter i
    wrec,        \* wrec[i][w]: the record the worker holds (0: none)
    stopPc,      \* stopPc[i]: position of the caller of StopWorkers
    recs,        \* recs[r]: the attribute value of record r, in creation order
    ctx,         \* ctx[r]: the rule metadata held by the context of record r
    accepted,    \* accepted[i]: records sent on workerCh[i], in send order
    wrecv,       \* wrecv[i][w]: records worker w received, in receive order
    finished,    \* finished[i]: records a worker of i has completely processed
    atClose,     \* atClose[i]: records queued or held by a worker when workerCh[i] was closed
    outs,        \* calls of the out callback: [r, pi, w], in call order
    syncRes,     \* results of Process calls: [r, pi, res] (res = 0 is nil)
    faulted,     \* the process panicked (send on / close of a closed or nil channel)
    cur,         \* s.pi of the policy engine: the interpreter it dispatches to
    dpc,         \* position of the dispatch loop of the policy engine
    drec,        \* the record the dispatch loop holds (0: none)
    monitorCh,   \* interpreters the policy monitor has compiled and not yet handed over
    files,       \* files[n]: the bytes of the file with inode n
    pathIno,     \* the inode fs.pathname refers to (0: the pathname does not exist)
    fsCount,     \* counters of the file system: inodes created, payload bytes written, truncations
    gor,         \* gor[g]: goroutine g of the stream: position, fd, fi, offset, partial, newfi, serr
    nGor,        \* number of goroutines the stream has started
    lines,       \* the LogLines sent on fs.lines: [text, g], in send order
    completed,   \* fs.completed
    stopped,     \* fs.stopChan is closed
    cancelled,   \* ctx is done
    tailWg,      \* counter of the wait group given to the stream
    truncates,   \* fileTruncates: truncations the stream has detected
    cin,         \* the operands a caller builds criteria from and the record r it evaluates them on
    cout,        \* the operation the caller applied and what its evaluation returned
    paths,       \* the paths Compile was called with
    cpc,         \* position of Compile: the path, the pass over it, the item of the walk
    pic,         \* the interpreter being compiled: pi.lists, pi.macroCtxs, pi.filters, pi.rules
    cret,        \* what Compile returned: "none" (not yet), "nil" or "err"
    tw,          \* the testWaker: t.n, t.mu, t.wake, the channels made and closed, wakeFunc
    wakee        \* wakee[i]: position of wakee i and the channel Wake() returned to it

vars == << mode, concurrency, outSet, policy, workerCh, wg, wpc, wrec, stopPc,
           recs, ctx, accepted, wrecv, finished, atClose, outs, syncRes, faulted,
           cur, dpc, drec, monitorCh,
           files, pathIno, fsCount, gor, nGor, lines, completed, stopped,
           cancelled, tailWg, truncates, cin, cout, paths, cpc, pic, cret,
           tw, wakee >>

piVars == << workerCh, wg, wpc, wrec, stopPc, accepted, wrecv, finished, atClose, outs >>
engVars == << cur, dpc, drec, monitorCh >>
confVars == << mode, concurrency, outSet, policy >>
tailVars == << files, pathIno, fsCount, gor, nGor, lines, completed, stopped,
              cancelled, tailWg, truncates >>
compVars == << paths, cpc, pic, cret >>
wakerVars == << tw, wakee >>
critVars == << cin, cout, compVars, wakerVars >>

(***************************************************************************)
(* The per-record algorithm.                                               *)
(***************************************************************************)
\* variant: the loop returns the outcome of the first filter it visits
EvalFiltersFirstOnly(fs, k, v) ==
    k <= Len(fs) /\ fs[k].Enabled /\ Eval(fs[k].condition, v).res

\* EvalFilters: the loop over pi.filters from position k on
RECURSIVE EvalFiltersFrom(_, _, _)
EvalFiltersFrom(fs, k, v) ==
    IF k > Len(fs) THEN FALSE
    ELSE IF fs[k].Enabled /\ Eval(fs[k].condition, v).res THEN TRUE
         ELSE EvalFiltersFrom(fs, k + 1, v)

EvalFilters(i, v) == EvalFiltersFrom(policy[i].filters, 1, v)

\* variant: the rule loop does not test rule.Enabled
RECURSIVE ApplyRulesIgnoreEnabled(_, _, _, _)
ApplyRulesIgnoreEnabled(rs, k, v, match) ==
    IF k > Len(rs) THEN match
    ELSE ApplyRulesIgnoreEnabled(rs, k + 1, v,
                    IF Eval(rs[k].condition, v).res THEN TRUE ELSE match)

\* the loop over pi.rules from position k on, match being the flag so far
RECURSIVE ApplyRules(_, _, _, _)
ApplyRules(rs, k, v, match) ==
    IF k > Len(rs) THEN match
    ELSE ApplyRules(rs, k + 1, v,
                    IF rs[k].Enabled /\ Eval(rs[k].condition, v).res
                    THEN TRUE ELSE match)

\* variant: match starts false in every mode
MatchNoEnrich(i, v) == ApplyRules(policy[i].rules, 1, v, FALSE)

\* match after the rule loop (worker and Process compute it the same way)
Match(i, v) == ApplyRules(policy[i].rules, 1, v, mode = EnrichMode)

\* the interpreter (and the engine around it) after construction
InitInterp ==
    /\ workerCh = [i \in Interps |-> [st |-> "nil", buf |-> <<>>]]
    /\ wg = [i \in Interps |-> 0]
    /\ wpc = [i \in Interps |-> [w \in Workers |-> "none"]]
    /\ wrec = [i \in Interps |-> [w \in Workers |-> 0]]
    /\ stopPc = [i \in Interps |-> "idle"]
    /\ recs = <<>>
    /\ ctx = <<>>
    /\ accepted = [i \in Interps |-> <<>>]
    /\ wrecv = [i \in Interps |-> [w \in Workers |-> <<>>]]
    /\ finished = [i \in Interps |-> {}]
    /\ atClose = [i \in Interps |-> {}]
    /\ outs = <<>>
    /\ syncRes = {}
    /\ faulted = FALSE
    /\ cur = 0
    /\ dpc = "init"
    /\ drec = 0
    /\ monitorCh = <<>>

\* the configuration and the compiled policies of the first interpreter
InitConf ==
    /\ mode \in {AlertMode, EnrichMode}
    /\ concurrency \in 1..MaxConcurrency
    /\ outSet \in BOOLEAN
    /\ \E p \in Policies : policy = [i \in Interps |-> IF i = 1 THEN p ELSE NoPolicy]

\* the file stream after newFileStream: the (empty) log file is open in the
\* first goroutine, which is about to read
InitTail ==
    /\ files = [n \in Inodes |-> <<>>]
    /\ pathIno = 1
    /\ fsCount = [ino |-> 1, payload |-> 0, truncs |-> 0]
    /\ gor = [g \in Gors |-> IF g = 1
                              THEN [pc |-> "read", fd |-> 1, fi |-> 1, off |-> 0,
                                    partial |-> <<>>, newfi |-> 0, serr |-> FALSE]
                              ELSE NoGor]
    /\ nGor = 1
    /\ lines = <<>>
    /\ completed = FALSE
    /\ stopped = FALSE
    /\ cancelled = FALSE
    /\ tailWg = 1
    /\ truncates = 0

\* wakees of the test waker, calls of wakeFunc, and the channels made
NWakees == 2
MaxBroadcasts == 2
Wakees == 1..NWakees
Chans == 0..MaxBroadcasts

\* NewTest(ctx, n): the channels wakeeReady, wakeeDone and wait are
\* unbuffered; wake is the first channel made (0); the goroutine that
\* closes initDone has received nothing yet; wakeFunc has not been called.
\* bg counts the goroutines started by Wake() by what they block on.
NewTest(n) ==
    [n |-> n, mu |-> "free", wake |-> 0, made |-> 1,
     closes |-> [c \in Chans |-> 0],
     initCnt |-> 0, initDone |-> FALSE,
     bg |-> [done |-> 0, wait |-> 0, ready |-> 0],
     wf |-> [pc |-> "idle", i |-> 0, after |-> 0], calls |-> 0]

\* no wakee has called Wake()
InitWaker ==
    /\ tw = NewTest(NWakees)
    /\ wakee = [i \in Wakees |-> [pc |-> "run", w |-> 0]]

\* Compile has not been called
InitComp ==
    /\ paths = <<>>
    /\ cpc = [path |-> 0, pass |-> "idle", k |-> 0]
    /\ pic = NewPolicyInterpreter
    /\ cret = "none"

\* no criterion is being evaluated, no policy being compiled
InitCrit ==
    /\ cin = [p |-> False, q |-> False, r |-> 0]
    /\ cout = NoCall
    /\ InitComp
    /\ InitWaker

Init == InitConf /\ InitInterp /\ InitTail /\ InitCrit

(***************************************************************************)
(* Operations of one interpreter.                                          *)
(***************************************************************************)
\* a caller creates a new record with attribute value v
NewRecord(v) ==
    /\ Len(recs) < MaxRecords
    /\ recs' = Append(recs, v)
    /\ ctx' = Append(ctx, <<>>)

\* StartWorkers: make the channel with capacity pi.concurrency, add
\* pi.concurrency to the wait group, start the worker goroutines.  The
\* callers start the pool of an interpreter once.
StartWorkersOp(i) ==
    /\ workerCh[i].st = "nil"
    /\ workerCh' = [workerCh EXCEPT ![i] = [st |-> "open", buf |-> <<>>]]
    /\ wg' = [wg EXCEPT ![i] = concurrency]
    /\ wpc' = [wpc EXCEPT ![i] = [w \in Workers |->
                                    IF w <= concurrency THEN "recv" ELSE "none"]]

StartWorkers(i) ==
    /\ ~faulted
    /\ StartWorkersOp(i)
    /\ UNCHANGED << wrec, stopPc, accepted, wrecv, finished, atClose, outs >>
    /\ UNCHANGED << recs, ctx, syncRes, faulted >>
    /\ UNCHANGED confVars
    /\ UNCHANGED << tailVars, critVars >>
    /\ UNCHANGED engVars

\* the send pi.workerCh <- r: panics on a closed channel, blocks for ever on
\* a nil channel, blocks while the buffer is full
SendOp(i, r) ==
    IF workerCh[i].st = "closed"
    THEN /\ faulted' = TRUE
         /\ UNCHANGED << workerCh, accepted >>
    ELSE /\ workerCh[i].st = "open"
         /\ Len(workerCh[i].buf) < concurrency
         /\ workerCh' = [workerCh EXCEPT ![i].buf = Append(@, r)]
         /\ accepted' = [accepted EXCEPT ![i] = Append(@, r)]
         /\ UNCHANGED faulted

\* ProcessAsync(r) on a fresh record
ProcessAsync(i) ==
    /\ ~faulted
    /\ \E v \in RecVals : NewRecord(v)
    /\ SendOp(i, Len(recs) + 1)
    /\ UNCHANGED << wg, wpc, wrec, stopPc, wrecv, finished, atClose, outs, syncRes >>
    /\ UNCHANGED confVars
    /\ UNCHANGED << tailVars, critVars >>
    /\ UNCHANGED engVars

\* the queue without record r
Remove(buf, r) == SelectSeq(buf, LAMBDA x : x # r)

\* variant: the channel hands out the record queued last
ChanLast(buf) == buf[Len(buf)]

\* the record the channel hands to a receiver
ChanHead(buf) == Head(buf)

\* worker: r, ok := <-pi.workerCh; on a closed and empty channel break and
\* pi.wg.Done()
WorkerRecv(i, w) ==
    /\ ~faulted
    /\ wpc[i][w] = "recv"
    /\ IF workerCh[i].buf # <<>>
       THEN /\ wrec' = [wrec EXCEPT ![i][w] = ChanHead(workerCh[i].buf)]
            /\ workerCh' = [workerCh EXCEPT ![i].buf = Remove(@, ChanHead(@))]
            /\ wrecv' = [wrecv EXCEPT ![i][w] = Append(@, ChanHead(workerCh[i].buf))]
            /\ wpc' = [wpc EXCEPT ![i][w] = "proc"]
            /\ UNCHANGED wg
       ELSE /\ workerCh[i].st = "closed"
            /\ wpc' = [wpc EXCEPT ![i][w] = "done"]
            /\ wg' = [wg EXCEPT ![i] = @ - 1]
            /\ UNCHANGED << wrec, workerCh, wrecv >>
    /\ UNCHANGED << stopPc, accepted, finished, atClose, outs >>
    /\ UNCHANGED << recs, ctx, syncRes, faulted >>
    /\ UNCHANGED confVars
    /\ UNCHANGED << tailVars, critVars >>
    /\ UNCHANGED engVars

\* the worker's verdict on the record it holds: "filtered" (continue),
\* "forward" (pi.out(r)) or "discard"
Verdict(i, v) ==
    IF EvalFilters(i, v) THEN "filtered"
    ELSE IF Match(i, v) /\ outSet THEN "forward"
    ELSE "discard"

\* worker: filters, rule loop, push downstream, next iteration.  The calls
\* that would write the record context (r.Ctx.AddRule) are not made.
WorkerProcess(i, w) ==
    /\ ~faulted
    /\ wpc[i][w] = "proc"
    /\ LET r == wrec[i][w] IN
         /\ outs' = IF Verdict(i, recs[r]) = "forward"
                    THEN Append(outs, [r |-> r, pi |-> i, w |-> w])
                    ELSE outs
         /\ finished' = [finished EXCEPT ![i] = @ \cup {r}]
    /\ wrec' = [wrec EXCEPT ![i][w] = 0]
    /\ wpc' = [wpc EXCEPT ![i][w] = "recv"]
    /\ UNCHANGED << workerCh, wg, stopPc, accepted, wrecv, atClose >>
    /\ UNCHANGED << recs, ctx, syncRes, faulted >>
    /\ UNCHANGED confVars
    /\ UNCHANGED << tailVars, critVars >>
    /\ UNCHANGED engVars

\* StopWorkers, first half: close(pi.workerCh) panics on a nil or closed
\* channel
CloseOp(i) ==
    IF workerCh[i].st = "open"
    THEN /\ workerCh' = [workerCh EXCEPT ![i].st = "closed"]
         /\ stopPc' = [stopPc EXCEPT ![i] = "waiting"]
         /\ atClose' = [atClose EXCEPT ![i] =
                           {workerCh[i].buf[k] : k \in DOMAIN workerCh[i].buf}
                           \cup ({wrec[i][w] : w \in Workers} \ {0})]
         /\ UNCHANGED faulted
    ELSE /\ faulted' = TRUE
         /\ UNCHANGED << workerCh, stopPc, atClose >>

StopWorkersClose(i) ==
    /\ ~faulted
    /\ stopPc[i] = "idle"
    /\ CloseOp(i)
    /\ UNCHANGED << wg, wpc, wrec, accepted, wrecv, finished, outs >>
    /\ UNCHANGED << recs, ctx, syncRes >>
    /\ UNCHANGED confVars
    /\ UNCHANGED << tailVars, critVars >>
    /\ UNCHANGED engVars

\* variant: StopWorkers does not wait for the workers
WaitDoneNoWait(i) == TRUE

\* variant: StopWorkers stops waiting while one worker is still running
WaitDoneOneLeft(i) == wg[i] <= 1

\* pi.wg.Wait() returns once the counter is zero
WaitDone(i) == wg[i] = 0

\* StopWorkers, second half: pi.wg.Wait() returns
StopWorkersReturn(i) ==
    /\ ~faulted
    /\ stopPc[i] = "waiting"
    /\ WaitDone(i)
    /\ stopPc' = [stopPc EXCEPT ![i] = "returned"]
    /\ UNCHANGED << workerCh, wg, wpc, wrec, accepted, wrecv, finished, atClose, outs >>
    /\ UNCHANGED << recs, ctx, syncRes, faulted >>
    /\ UNCHANGED confVars
    /\ UNCHANGED << tailVars, critVars >>
    /\ UNCHANGED engVars

\* variant: Process does not apply the filters
ProcessResUnfiltered(i, r, v) ==
    IF Match(i, v) THEN r ELSE 0

\* Process(r) on a fresh record: the synchronous path; returns r or nil
ProcessRes(i, r, v) ==
    IF EvalFilters(i, v) THEN 0
    ELSE IF Match(i, v) THEN r
    ELSE 0

Process(i) ==
    /\ ~faulted
    /\ \E v \in RecVals :
         /\ NewRecord(v)
         /\ syncRes' = syncRes \cup
                {[r |-> Len(recs) + 1, pi |-> i, res |-> ProcessRes(i, Len(recs) + 1, v)]}
    /\ UNCHANGED piVars
    /\ UNCHANGED faulted
    /\ UNCHANGED confVars
    /\ UNCHANGED << tailVars, critVars >>
    /\ UNCHANGED engVars

(***************************************************************************)
(* Specification of one interpreter driven through its API by callers.     *)
(***************************************************************************)
Next ==
    \/ StartWorkers(1)
    \/ ProcessAsync(1)
    \/ \E w \in Workers : WorkerRecv(1, w)
    \/ \E w \in Workers : WorkerProcess(1, w)
    \/ StopWorkersClose(1)
    \/ StopWorkersReturn(1)
    \/ Process(1)

Spec == Init /\ [][Next]_vars

(***************************************************************************)
(* The policy engine: dispatch loop with hot reload.  The loop is the      *)
(* design documented for PolicyEngine.Init / Process: the engine creates   *)
(* and starts an interpreter, then for each input record checks (when the  *)
(* monitor interval has expired) whether the policy monitor has compiled a *)
(* new interpreter, stops the workers of the old one, starts the new one,  *)
(* and hands the record to the current interpreter with ProcessAsync.      *)
(***************************************************************************)
\* Init of the engine: createPolicyInterpreter compiles the policies and
\* starts the workers of the first interpreter
EngineInit ==
    /\ ~faulted
    /\ dpc = "init"
    /\ StartWorkersOp(1)
    /\ cur' = 1
    /\ dpc' = "recv"
    /\ UNCHANGED << wrec, stopPc, accepted, wrecv, finished, atClose, outs >>
    /\ UNCHANGED << recs, ctx, syncRes, faulted, drec, monitorCh >>
    /\ UNCHANGED confVars
    /\ UNCHANGED << tailVars, critVars >>

\* the policy monitor compiles the changed policies into a new interpreter
\* and offers it on its interpreter channel
MonitorCompile ==
    /\ ~faulted
    /\ dpc # "init"
    /\ monitorCh = <<>>
    /\ \E i \in Interps :
         /\ i = cur + 1
         /\ workerCh[i].st = "nil"
         /\ \E p \in ReloadPolicies : policy' = [policy EXCEPT ![i] = p]
         /\ monitorCh' = << i >>
    /\ UNCHANGED << mode, concurrency, outSet >>
    /\ UNCHANGED piVars
    /\ UNCHANGED << tailVars, critVars >>
    /\ UNCHANGED << recs, ctx, syncRes, faulted, cur, dpc, drec >>

\* dispatch loop: receive the next input record; when the monitor interval
\* has expired and a new interpreter is offered, take it and call
\* StopWorkers on the current one (close of its intake)
DispatchRecv ==
    /\ ~faulted
    /\ dpc = "recv"
    /\ \E v \in RecVals : NewRecord(v)
    /\ drec' = Len(recs) + 1
    /\ \/ /\ dpc' = "send"
          /\ UNCHANGED << workerCh, stopPc, atClose, faulted, monitorCh >>
       \/ /\ monitorCh # <<>>
          /\ CloseOp(cur)
          /\ dpc' = "swap"
          /\ UNCHANGED monitorCh
    /\ UNCHANGED << wg, wpc, wrec, accepted, wrecv, finished, outs >>
    /\ UNCHANGED << syncRes, cur >>
    /\ UNCHANGED confVars
    /\ UNCHANGED << tailVars, critVars >>

\* dispatch loop: StopWorkers of the old interpreter returns, the new
\* interpreter's workers are started and it becomes s.pi
DispatchSwap ==
    /\ ~faulted
    /\ dpc = "swap"
    /\ WaitDone(cur)
    /\ LET new == Head(monitorCh) IN
         /\ StartWorkersOp(new)
         /\ cur' = new
    /\ stopPc' = [stopPc EXCEPT ![cur] = "returned"]
    /\ monitorCh' = Tail(monitorCh)
    /\ dpc' = "send"
    /\ UNCHANGED << wrec, accepted, wrecv, finished, atClose, outs >>
    /\ UNCHANGED << recs, ctx, syncRes, faulted, drec >>
    /\ UNCHANGED confVars
    /\ UNCHANGED << tailVars, critVars >>

\* dispatch loop: s.pi.ProcessAsync(record)
DispatchSend ==
    /\ ~faulted
    /\ dpc = "send"
    /\ SendOp(cur, drec)
    /\ drec' = 0
    /\ dpc' = "recv"
    /\ UNCHANGED << wg, wpc, wrec, stopPc, wrecv, finished, atClose, outs >>
    /\ UNCHANGED << recs, ctx, syncRes, cur, monitorCh >>
    /\ UNCHANGED confVars
    /\ UNCHANGED << tailVars, critVars >>

NextEngine ==
    \/ EngineInit
    \/ MonitorCompile
    \/ DispatchRecv
    \/ DispatchSwap
    \/ DispatchSend
    \/ \E i \in Interps, w \in Workers : WorkerRecv(i, w)
    \/ \E i \in Interps, w \in Workers : WorkerProcess(i, w)

SpecEngine == Init /\ [][NextEngine]_vars

interpVars == << mode, concurrency, outSet, policy, workerCh, wg, wpc, wrec,
                 stopPc, recs, ctx, accepted, wrecv, finished, atClose, outs,
                 syncRes, faulted, cur, dpc, drec, monitorCh >>

(***************************************************************************)
(* Evaluation of combined criteria on a record.                            *)
(***************************************************************************)
\* the two criteria of the caller and the record it evaluates them on
P == cin.p
Q == cin.q

\* the second operand of a binary combinator
Operand(name) ==
    CASE name = "q" -> Q
      [] name = "True" -> True
      [] name = "False" -> False

\* the lists given to All and Any
CritList(name) == IF name = "p" THEN <<P>> ELSE <<P, Q>>

\* a caller holds two criteria built from arbitrary predicates and a record
InitCritOnly ==
    /\ mode = AlertMode
    /\ concurrency = 1
    /\ outSet = TRUE
    /\ policy = [i \in Interps |-> NoPolicy]
    /\ InitInterp
    /\ InitTail
    /\ \E pp \in Preds, pq \in Preds, r \in CritRecs :
           cin = [p |-> Criterion("p", pp), q |-> Criterion("q", pq), r |-> r]
    /\ cout = NoCall
    /\ InitComp
    /\ InitWaker

\* p.And(b) and b.And(p) are built and evaluated on the record
CallAnd ==
    /\ cout = NoCall
    /\ \E b \in {"q", "True", "False"} :
           cout' = [op |-> "And", arg |-> b,
                    ab |-> CritEval(And(P, Operand(b)), cin.r),
                    ba |-> CritEval(And(Operand(b), P), cin.r)]
    /\ UNCHANGED << cin, interpVars, tailVars, compVars, wakerVars >>

\* p.Or(b) and b.Or(p) are built and evaluated on the record
CallOr ==
    /\ cout = NoCall
    /\ \E b \in {"q", "True", "False"} :
           cout' = [op |-> "Or", arg |-> b,
                    ab |-> CritEval(Or(P, Operand(b)), cin.r),
                    ba |-> CritEval(Or(Operand(b), P), cin.r)]
    /\ UNCHANGED << cin, interpVars, tailVars, compVars, wakerVars >>

\* p.Not() and p.Not().Not() are built and evaluated on the record
CallNot ==
    /\ cout = NoCall
    /\ cout' = [op |-> "Not",
                n  |-> CritEval(Not(P), cin.r),
                nn |-> CritEval(Not(Not(P)), cin.r)]
    /\ UNCHANGED << cin, interpVars, tailVars, compVars, wakerVars >>

\* All of a list of criteria is built and evaluated on the record
CallAll ==
    /\ cout = NoCall
    /\ \E l \in {"p", "pq"} :
           cout' = [op |-> "All", arg |-> l, out |-> CritEval(All(CritList(l)), cin.r)]
    /\ UNCHANGED << cin, interpVars, tailVars, compVars, wakerVars >>

\* Any of a list of criteria is built and evaluated on the record
CallAny ==
    /\ cout = NoCall
    /\ \E l \in {"p", "pq"} :
           cout' = [op |-> "Any", arg |-> l, out |-> CritEval(AnyOf(CritList(l)), cin.r)]
    /\ UNCHANGED << cin, interpVars, tailVars, compVars, wakerVars >>

NextCrit ==
    \/ CallAnd
    \/ CallOr
    \/ CallNot
    \/ CallAll
    \/ CallAny

SpecCrit == InitCritOnly /\ [][NextCrit]_vars

(***************************************************************************)
(* Evaluation of the comparison operations on a record.                    *)
(***************************************************************************)
\* the lists a caller gives to In and PMatch: empty, the string x alone,
\* or x after another element
Lists == {"empty", "x", "Ax"}

ListOf(name) ==
    CASE name = "empty" -> <<>>
      [] name = "x" -> <<cin.x>>
      [] name = "Ax" -> << <<"A">>, cin.x >>

\* a caller holds an attribute name, a string and a record
InitOpsOnly ==
    /\ mode = AlertMode
    /\ concurrency = 1
    /\ outSet = TRUE
    /\ policy = [i \in Interps |-> NoPolicy]
    /\ InitInterp
    /\ InitTail
    /\ \E a \in Mappers, x \in Strs, r \in Records :
           cin = [attr |-> a, x |-> x, r |-> r]
    /\ cout = NoCall
    /\ InitComp
    /\ InitWaker

CallEq ==
    /\ cout = NoCall
    /\ cout' = [op |-> "Eq", prim |-> "eq", res |-> Eq(cin.attr, cin.x, cin.r)]
    /\ UNCHANGED << cin, interpVars, tailVars, compVars, wakerVars >>

CallStartsWith ==
    /\ cout = NoCall
    /\ cout' = [op |-> "StartsWith", prim |-> "startswith",
                res |-> StartsWith(cin.attr, cin.x, cin.r)]
    /\ UNCHANGED << cin, interpVars, tailVars, compVars, wakerVars >>

CallEndsWith ==
    /\ cout = NoCall
    /\ cout' = [op |-> "EndsWith", prim |-> "endswith",
                res |-> EndsWith(cin.attr, cin.x, cin.r)]
    /\ UNCHANGED << cin, interpVars, tailVars, compVars, wakerVars >>

CallContains ==
    /\ cout = NoCall
    /\ cout' = [op |-> "Contains", prim |-> "contains",
                res |-> Contains(cin.attr, cin.x, cin.r)]
    /\ UNCHANGED << cin, interpVars, tailVars, compVars, wakerVars >>

CallIContains ==
    /\ cout = NoCall
    /\ cout' = [op |-> "IContains", prim |-> "icontains",
                res |-> IContains(cin.attr, cin.x, cin.r)]
    /\ UNCHANGED << cin, interpVars, tailVars, compVars, wakerVars >>

CallIn ==
    /\ cout = NoCall
    /\ \E l \in Lists :
           cout' = [op |-> "In", prim |-> "eq", list |-> l,
                    res |-> In(cin.attr, ListOf(l), cin.r)]
    /\ UNCHANGED << cin, interpVars, tailVars, compVars, wakerVars >>

CallPMatch ==
    /\ cout = NoCall
    /\ \E l \in Lists :
           cout' = [op |-> "PMatch", prim |-> "contains", list |-> l,
                    res |-> PMatch(cin.attr, ListOf(l), cin.r)]
    /\ UNCHANGED << cin, interpVars, tailVars, compVars, wakerVars >>

NextOps ==
    \/ CallEq
    \/ CallStartsWith
    \/ CallEndsWith
    \/ CallContains
    \/ CallIContains
    \/ CallIn
    \/ CallPMatch

SpecOps == InitOpsOnly /\ [][NextOps]_vars

(***************************************************************************)
(* Compile: the paths are compiled in order, each by a walk over the       *)
(* definitions and a walk over the whole policy.                           *)
(***************************************************************************)
\* a path given to Compile: whether the file can be read, the errors the
\* lexer and the parser report on it, and the items of its parse tree
Path(readable, lexerErrors, parserErrors, items) ==
    [readable |-> readable, lexerErrors |-> lexerErrors,
     parserErrors |-> parserErrors, items |-> items]

\* the files of the paths that are compiled one after another: one item,
\* repeated
SmallFiles ==
    {[k \in 1..FileLen |-> it] :
        it \in {Plist(<<"L">>, << <<"A">> >>), Prule(InTerm(<< <<"L">> >>))}}

\* what Compile is called with: one readable policy file without errors, or
\* up to MaxPaths paths with and without errors
CompilePaths ==
    {<< Path(TRUE, 0, 0, f) >> : f \in PolicyFiles}
        \cup UNION {[1..n -> {Path(rd, le, pe, f) :
                                  rd \in BOOLEAN, le \in 0..1, pe \in 0..1,
                                  f \in SmallFiles}] : n \in 2..MaxPaths}

\* Compile(paths...) is called on a new interpreter
InitCompileOnly ==
    /\ mode = AlertMode
    /\ concurrency = 1
    /\ outSet = TRUE
    /\ policy = [i \in Interps |-> NoPolicy]
    /\ InitInterp
    /\ InitTail
    /\ cin = [p |-> False, q |-> False, r |-> 0]
    /\ cout = NoCall
    /\ paths \in CompilePaths
    /\ cpc = [path |-> 1, pass |-> "open", k |-> 0]
    /\ pic = NewPolicyInterpreter
    /\ cret = "none"
    /\ InitWaker

\* the path compile is working on
CurPath == paths[cpc.path]

\* compile: antlr.NewFileStream(path); an error is returned by compile and
\* by Compile
CompileOpen ==
    /\ cpc.pass = "open"
    /\ IF CurPath.readable
       THEN /\ cpc' = [cpc EXCEPT !.pass = "defs", !.k = 1]
            /\ UNCHANGED cret
       ELSE /\ cpc' = [cpc EXCEPT !.pass = "returned"]
            /\ cret' = "err"
    /\ UNCHANGED << paths, pic >>
    /\ UNCHANGED << cin, cout, interpVars, tailVars, wakerVars >>

\* variant: no walk over the definitions before the walk over the policy
WalkDefsSkip ==
    /\ cpc.pass = "defs"
    /\ cpc' = [cpc EXCEPT !.pass = "policy", !.k = 1]
    /\ UNCHANGED << paths, cret, pic >>
    /\ UNCHANGED << cin, cout, interpVars, tailVars, wakerVars >>

\* the walk over p.Defs(), item by item; at its end the input is rewound
WalkDefs ==
    /\ cpc.pass = "defs"
    /\ IF cpc.k <= Len(CurPath.items)
       THEN /\ pic' = ExitDefs(pic, CurPath.items[cpc.k])
            /\ cpc' = [cpc EXCEPT !.k = @ + 1]
       ELSE /\ cpc' = [cpc EXCEPT !.pass = "policy", !.k = 1]
            /\ UNCHANGED pic
    /\ UNCHANGED << paths, cret >>
    /\ UNCHANGED << cin, cout, interpVars, tailVars, wakerVars >>

\* the walk over p.Policy(), item by item; an expansion that never ends
\* is fatal
WalkPolicy ==
    /\ cpc.pass = "policy"
    /\ IF cpc.k <= Len(CurPath.items)
       THEN /\ pic' = ExitPolicy(pic, CurPath.items[cpc.k])
            /\ cpc' = IF ExitPolicy(pic, CurPath.items[cpc.k]).fatal
                      THEN [cpc EXCEPT !.pass = "fatal"]
                      ELSE [cpc EXCEPT !.k = @ + 1]
       ELSE /\ cpc' = [cpc EXCEPT !.pass = "check"]
            /\ UNCHANGED pic
    /\ UNCHANGED << paths, cret >>
    /\ UNCHANGED << cin, cout, interpVars, tailVars, wakerVars >>

\* variant: only the errors of the lexer count
ErrFoundLexerOnly(path) == path.lexerErrors > 0

\* compile: errFound
ErrFound(path) == path.lexerErrors > 0 \/ path.parserErrors > 0

\* the end of compile and the loop of Compile: with errors found compile and
\* Compile return an error; otherwise Compile goes on to the next path, and
\* returns nil after the last
CompileCheck ==
    /\ cpc.pass = "check"
    /\ IF ErrFound(CurPath)
       THEN /\ cpc' = [cpc EXCEPT !.pass = "returned"]
            /\ cret' = "err"
       ELSE IF cpc.path < Len(paths)
       THEN /\ cpc' = [cpc EXCEPT !.path = @ + 1, !.pass = "open", !.k = 0]
            /\ UNCHANGED cret
       ELSE /\ cpc' = [cpc EXCEPT !.pass = "returned"]
            /\ cret' = "nil"
    /\ UNCHANGED << paths, pic >>
    /\ UNCHANGED << cin, cout, interpVars, tailVars, wakerVars >>

NextCompile ==
    \/ CompileOpen
    \/ WalkDefs
    \/ WalkPolicy
    \/ CompileCheck

SpecCompile == InitCompileOnly /\ [][NextCompile]_vars

(***************************************************************************)
(* The log file stream (fileStream): file system, goroutines, signals.     *)
(***************************************************************************)
Min(a, b) == IF a < b THEN a ELSE b

\* the LogLine made of the partial buffer p by goroutine g
LogLine(p, g) == [text |-> p, g |-> g]

\* sendLine: send the partial buffer as a line (the caller resets it)
SendLine(ls, p, g) == Append(ls, LogLine(p, g))

\* utf8.DecodeRune(b): the first rune of b and its width in bytes; a lead
\* byte without its continuation byte in b, and a continuation byte alone,
\* decode to RuneError of width 1
DecodeRune(b) ==
    IF Head(b) = LEAD
    THEN IF Len(b) >= 2 /\ b[2] = CONT THEN [r |-> RuneE, width |-> 2]
         ELSE [r |-> RuneError, width |-> 1]
    ELSE IF Head(b) = CONT THEN [r |-> RuneError, width |-> 1]
    ELSE [r |-> Head(b), width |-> 1]

\* decodeAndSend: decode the bytes b rune by rune into the partial buffer
\* p, eating carriage returns and sending a line at each newline; yields
\* the lines sent and the buffer
RECURSIVE DecodeAndSend(_, _, _, _)
DecodeAndSend(b, p, ls, g) ==
    IF b = <<>> THEN [lines |-> ls, partial |-> p]
    ELSE LET d    == DecodeRune(b)
             rest == SubSeq(b, d.width + 1, Len(b))
         IN IF d.r = CR THEN DecodeAndSend(rest, p, ls, g)
            ELSE IF d.r = NL THEN DecodeAndSend(rest, <<>>, SendLine(ls, p, g), g)
            ELSE DecodeAndSend(rest, Append(p, d.r), ls, g)

\* variant: the partial buffer is sent whether or not it is empty
FlushAlways(ls, p, g) == SendLine(ls, p, g)

\* if partial.Len() > 0 { sendLine(...) }
FlushPartial(ls, p, g) == IF Len(p) > 0 THEN SendLine(ls, p, g) ELSE ls

\* the last line of the file is not terminated by a newline
OpenLine(data) == data # <<>> /\ data[Len(data)] # NL

\* the log writer appends one byte to the file the pathname refers to: the
\* next payload byte, or the newline that ends a non-empty line
FsWrite ==
    /\ pathIno # 0
    /\ \/ /\ fsCount.payload < MaxPayload
          /\ files' = [files EXCEPT ![pathIno] = Append(@, fsCount.payload + 1)]
          /\ fsCount' = [fsCount EXCEPT !.payload = @ + 1]
       \/ /\ OpenLine(files[pathIno])
          /\ files' = [files EXCEPT ![pathIno] = Append(@, NL)]
          /\ UNCHANGED fsCount
    /\ UNCHANGED << pathIno, gor, nGor, lines, completed, stopped, cancelled,
                    tailWg, truncates >>
    /\ UNCHANGED << interpVars, critVars >>

\* the log file is renamed away (first half of a rotation, or a removal);
\* its inode stays readable through the open descriptor
FsRename ==
    /\ pathIno # 0
    /\ fsCount.ino <= MaxRotations
    /\ pathIno' = 0
    /\ UNCHANGED << fsCount, files, gor, nGor, lines, completed, stopped, cancelled,
                    tailWg, truncates >>
    /\ UNCHANGED << interpVars, critVars >>

\* a fresh, empty file is created at the pathname
FsCreate ==
    /\ pathIno = 0
    /\ fsCount.ino + 1 \in Inodes
    /\ pathIno' = fsCount.ino + 1
    /\ fsCount' = [fsCount EXCEPT !.ino = @ + 1]
    /\ UNCHANGED << files, gor, nGor, lines, completed, stopped, cancelled,
                    tailWg, truncates >>
    /\ UNCHANGED << interpVars, critVars >>

\* the log file is truncated to size zero
FsTruncate ==
    /\ pathIno # 0
    /\ files[pathIno] # <<>>
    /\ fsCount.truncs < MaxTruncs
    /\ files' = [files EXCEPT ![pathIno] = <<>>]
    /\ fsCount' = [fsCount EXCEPT !.truncs = @ + 1]
    /\ UNCHANGED << pathIno, gor, nGor, lines, completed, stopped, cancelled,
                    tailWg, truncates >>
    /\ UNCHANGED << interpVars, critVars >>

\* Stop: close(fs.stopChan), once
Stop ==
    /\ ~stopped
    /\ stopped' = TRUE
    /\ UNCHANGED << files, pathIno, fsCount, gor, nGor, lines, completed,
                    cancelled, tailWg, truncates >>
    /\ UNCHANGED << interpVars, critVars >>

\* the shared context is cancelled
Cancel ==
    /\ ~cancelled
    /\ cancelled' = TRUE
    /\ UNCHANGED << files, pathIno, fsCount, gor, nGor, lines, completed,
                    stopped, tailWg, truncates >>
    /\ UNCHANGED << interpVars, critVars >>

\* the descriptor of g refers to a file that is no longer at the pathname:
\* a read of it can fail with ESTALE
Stale(g) == gor[g].fd # pathIno

\* fd.Read, decodeAndSend, the ESTALE test and the test of line 221:
\* bytes read are decoded and the loop continues (or goes to Sleep when the
\* context is done); at EOF with no bytes the goroutine goes on to stat;
\* on ESTALE it goes on to re-open the stream
GorRead(g) ==
    /\ gor[g].pc = "read"
    /\ LET data == files[gor[g].fd]
           n    == Min(ReadBufferSize, Len(data) - gor[g].off)
           d    == DecodeAndSend(SubSeq(data, gor[g].off + 1, gor[g].off + n),
                                 gor[g].partial, lines, g)
       IN \/ /\ Stale(g)
             /\ gor' = [gor EXCEPT ![g].pc = "reopen"]
             /\ UNCHANGED lines
          \/ /\ n > 0
             /\ lines' = d.lines
             /\ gor' = [gor EXCEPT ![g].partial = d.partial,
                                   ![g].off = @ + n,
                                   ![g].pc = IF cancelled THEN "sleep" ELSE "read"]
          \/ /\ n <= 0
             /\ gor' = [gor EXCEPT ![g].pc = "stat"]
             /\ UNCHANGED lines
    /\ UNCHANGED << files, pathIno, fsCount, nGor, completed, stopped, cancelled,
                    tailWg, truncates >>
    /\ UNCHANGED << interpVars, critVars >>

\* variant: every error of os.Stat ends the stream
GorStatErrorEnds(g) ==
    /\ gor[g].pc = "stat"
    /\ \/ /\ lines' = FlushPartial(lines, gor[g].partial, g)
          /\ completed' = TRUE
          /\ gor' = [gor EXCEPT ![g].pc = "done", ![g].partial = <<>>, ![g].serr = TRUE]
          /\ tailWg' = tailWg - 1
          /\ UNCHANGED truncates
       \/ /\ pathIno = 0
          /\ lines' = FlushPartial(lines, gor[g].partial, g)
          /\ completed' = TRUE
          /\ gor' = [gor EXCEPT ![g].pc = "done", ![g].partial = <<>>]
          /\ tailWg' = tailWg - 1
          /\ UNCHANGED truncates
       \/ /\ pathIno # 0
          /\ pathIno # gor[g].fi
          /\ gor' = [gor EXCEPT ![g].pc = "spawn", ![g].newfi = pathIno]
          /\ UNCHANGED << lines, completed, tailWg, truncates >>
       \/ /\ pathIno # 0
          /\ pathIno = gor[g].fi
          /\ Len(files[pathIno]) < gor[g].off
          /\ lines' = FlushPartial(lines, gor[g].partial, g)
          /\ gor' = [gor EXCEPT ![g].pc = "read", ![g].partial = <<>>, ![g].off = 0]
          /\ truncates' = truncates + 1
          /\ UNCHANGED << completed, tailWg >>
       \/ /\ pathIno # 0
          /\ pathIno = gor[g].fi
          /\ Len(files[pathIno]) >= gor[g].off
          /\ gor' = [gor EXCEPT ![g].pc = "sleep"]
          /\ UNCHANGED << lines, completed, tailWg, truncates >>
    /\ UNCHANGED << files, pathIno, fsCount, nGor, stopped, cancelled >>
    /\ UNCHANGED << interpVars, critVars >>

\* os.Stat(fs.pathname) after EOF with no bytes, and what follows from its
\* result: NotExist (flush, completed, exit), another error (Sleep, serr
\* holding the error until the stop test is done), another
\* file than fi (go on to start a new stream), truncation (flush, seek to
\* 0, read on), or nothing new (Sleep)
GorStat(g) ==
    /\ gor[g].pc = "stat"
    /\ \/ /\ gor' = [gor EXCEPT ![g].pc = "sleep", ![g].serr = TRUE]
          /\ UNCHANGED << lines, completed, tailWg, truncates >>
       \/ /\ pathIno = 0
          /\ lines' = FlushPartial(lines, gor[g].partial, g)
          /\ completed' = TRUE
          /\ gor' = [gor EXCEPT ![g].pc = "done", ![g].partial = <<>>]
          /\ tailWg' = tailWg - 1
          /\ UNCHANGED truncates
       \/ /\ pathIno # 0
          /\ pathIno # gor[g].fi
          /\ gor' = [gor EXCEPT ![g].pc = "spawn", ![g].newfi = pathIno]
          /\ UNCHANGED << lines, completed, tailWg, truncates >>
       \/ /\ pathIno # 0
          /\ pathIno = gor[g].fi
          /\ Len(files[pathIno]) < gor[g].off
          /\ lines' = FlushPartial(lines, gor[g].partial, g)
          /\ gor' = [gor EXCEPT ![g].pc = "read", ![g].partial = <<>>, ![g].off = 0]
          /\ truncates' = truncates + 1
          /\ UNCHANGED << completed, tailWg >>
       \/ /\ pathIno # 0
          /\ pathIno = gor[g].fi
          /\ Len(files[pathIno]) >= gor[g].off
          /\ gor' = [gor EXCEPT ![g].pc = "sleep"]
          /\ UNCHANGED << lines, completed, tailWg, truncates >>
    /\ UNCHANGED << files, pathIno, fsCount, nGor, stopped, cancelled >>
    /\ UNCHANGED << interpVars, critVars >>

\* goroutine g after its call of fs.stream: it is about to return, its
\* partial buffer and its offset are dead
Returning(g) == [gor[g] EXCEPT !.pc = "ret", !.off = 0, !.partial = <<>>, !.newfi = 0]

\* variant: the calling goroutine goes on reading after it has started the
\* new one
StreamFromKeepOld(g, fi) ==
    /\ nGor < MaxGor
    /\ IF pathIno = 0
       THEN /\ gor' = [gor EXCEPT ![g].pc = "ret"]
            /\ UNCHANGED << nGor, tailWg >>
       ELSE /\ gor' = [gor EXCEPT ![g].pc = "read",
                                  ![nGor + 1] = [pc |-> "read", fd |-> pathIno,
                                                 fi |-> fi, off |-> 0,
                                                 partial |-> <<>>, newfi |-> 0,
                                                 serr |-> FALSE]]
            /\ nGor' = nGor + 1
            /\ tailWg' = tailWg + 1
    /\ UNCHANGED << files, pathIno, fsCount, lines, completed, stopped, cancelled,
                    truncates >>
    /\ UNCHANGED << interpVars, critVars >>

\* fs.stream(ctx, wg, waker, fi, true) called by goroutine g, which is then
\* about to return: the pathname is opened; if that fails no goroutine is
\* started; otherwise wg.Add(1) and a new goroutine reads the opened file
\* from offset 0 with a new, empty partial buffer and the FileInfo fi it
\* was given
StreamFrom(g, fi) ==
    /\ nGor < MaxGor
    /\ IF pathIno = 0
       THEN /\ gor' = [gor EXCEPT ![g] = Returning(g)]
            /\ UNCHANGED << nGor, tailWg >>
       ELSE /\ gor' = [gor EXCEPT ![g] = Returning(g),
                                  ![nGor + 1] = [pc |-> "read", fd |-> pathIno,
                                                 fi |-> fi, off |-> 0,
                                                 partial |-> <<>>, newfi |-> 0,
                                                 serr |-> FALSE]]
            /\ nGor' = nGor + 1
            /\ tailWg' = tailWg + 1
    /\ UNCHANGED << files, pathIno, fsCount, lines, completed, stopped, cancelled,
                    truncates >>
    /\ UNCHANGED << interpVars, critVars >>

\* the return of a goroutine that has called fs.stream: the deferred
\* fd.Close and wg.Done
GorReturn(g) ==
    /\ gor[g].pc = "ret"
    /\ gor' = [gor EXCEPT ![g].pc = "done", ![g].fd = 0, ![g].fi = 0]
    /\ tailWg' = tailWg - 1
    /\ UNCHANGED << files, pathIno, fsCount, nGor, lines, completed, stopped,
                    cancelled, truncates >>
    /\ UNCHANGED << interpVars, critVars >>

\* rotation: the new stream gets the FileInfo of the stat
GorSpawn(g) ==
    /\ gor[g].pc = "spawn"
    /\ StreamFrom(g, gor[g].newfi)

\* ESTALE: the new stream gets the FileInfo this goroutine was started with
GorReopen(g) ==
    /\ gor[g].pc = "reopen"
    /\ StreamFrom(g, gor[g].fi)

\* variant: on stop or cancellation completed is set but the goroutine
\* does not return
GorSleepNoReturn(g) ==
    /\ gor[g].pc = "sleep"
    /\ IF stopped \/ cancelled
       THEN /\ lines' = FlushPartial(lines, gor[g].partial, g)
            /\ completed' = TRUE
            /\ gor' = [gor EXCEPT ![g].pc = "wait", ![g].partial = <<>>,
                                  ![g].serr = FALSE]
            /\ UNCHANGED tailWg
       ELSE /\ gor' = [gor EXCEPT ![g].pc = "wait", ![g].serr = FALSE]
            /\ UNCHANGED << lines, completed, tailWg >>
    /\ UNCHANGED << files, pathIno, fsCount, nGor, stopped, cancelled, truncates >>
    /\ UNCHANGED << interpVars, critVars >>

\* Sleep: the first select; on stop or cancellation flush the partial
\* buffer, set completed and exit, otherwise go on to wait
GorSleep(g) ==
    /\ gor[g].pc = "sleep"
    /\ IF stopped \/ cancelled
       THEN /\ lines' = FlushPartial(lines, gor[g].partial, g)
            /\ completed' = TRUE
            /\ gor' = [gor EXCEPT ![g].pc = "done", ![g].partial = <<>>,
                                  ![g].serr = FALSE]
            /\ tailWg' = tailWg - 1
       ELSE /\ gor' = [gor EXCEPT ![g].pc = "wait", ![g].serr = FALSE]
            /\ UNCHANGED << lines, completed, tailWg >>
    /\ UNCHANGED << files, pathIno, fsCount, nGor, stopped, cancelled, truncates >>
    /\ UNCHANGED << interpVars, critVars >>

\* variant: a stop seen while waiting ends the stream without another read
GorWakeExitOnStop(g) ==
    /\ gor[g].pc = "wait"
    /\ IF stopped
       THEN /\ lines' = FlushPartial(lines, gor[g].partial, g)
            /\ completed' = TRUE
            /\ gor' = [gor EXCEPT ![g].pc = "done", ![g].partial = <<>>]
            /\ tailWg' = tailWg - 1
       ELSE /\ gor' = [gor EXCEPT ![g].pc = "read"]
            /\ UNCHANGED << lines, completed, tailWg >>
    /\ UNCHANGED << files, pathIno, fsCount, nGor, stopped, cancelled, truncates >>
    /\ UNCHANGED << interpVars, critVars >>

\* the second select: stop, cancellation or a wake-up sends the goroutine
\* back to read
GorWake(g) ==
    /\ gor[g].pc = "wait"
    /\ gor' = [gor EXCEPT ![g].pc = "read"]
    /\ UNCHANGED << files, pathIno, fsCount, nGor, lines, completed, stopped,
                    cancelled, tailWg, truncates >>
    /\ UNCHANGED << interpVars, critVars >>

NextTail ==
    \/ FsWrite
    \/ FsRename
    \/ FsCreate
    \/ FsTruncate
    \/ Stop
    \/ Cancel
    \/ \E g \in Gors : GorRead(g)
    \/ \E g \in Gors : GorStat(g)
    \/ \E g \in Gors : GorSpawn(g)
    \/ \E g \in Gors : GorReopen(g)
    \/ \E g \in Gors : GorReturn(g)
    \/ \E g \in Gors : GorSleep(g)
    \/ \E g \in Gors : GorWake(g)

\* one interpreter configuration, for the behaviours of the stream alone
InitTailOnly ==
    /\ mode = AlertMode
    /\ concurrency = 1
    /\ outSet = TRUE
    /\ policy = [i \in Interps |-> NoPolicy]
    /\ InitInterp
    /\ InitTail
    /\ InitCrit

SpecTail == InitTailOnly /\ [][NextTail]_vars

\* a goroutine that can take a step of its loop takes it; in the second
\* select it is sure to go on only when the stop channel is closed or the
\* context is done: a wake-up is up to the waker
GorFair(g) ==
    /\ WF_vars(GorRead(g) \/ GorStat(g) \/ GorSpawn(g) \/ GorReopen(g)
                  \/ GorReturn(g) \/ GorSleep(g))
    /\ WF_vars((stopped \/ cancelled) /\ GorWake(g))

SpecTailLive == InitTailOnly /\ [][NextTail]_vars /\ \A g \in Gors : GorFair(g)

(***************************************************************************)
(* The stream reading a file of text in UTF-8 with carriage returns.       *)
(***************************************************************************)
\* the log writer appends one byte of well-formed UTF-8 text: an ASCII
\* byte, a newline, a carriage return, or the next byte of the two-byte rune
FsWriteBytes ==
    /\ pathIno # 0
    /\ Len(files[pathIno]) < MaxBytes
    /\ \E b \in {1, NL, CR, LEAD, CONT} :
          /\ b = CONT <=> (files[pathIno] # <<>>
                              /\ files[pathIno][Len(files[pathIno])] = LEAD)
          /\ b = LEAD => Len(files[pathIno]) + 1 < MaxBytes
          /\ files' = [files EXCEPT ![pathIno] = Append(@, b)]
    /\ UNCHANGED << pathIno, fsCount, gor, nGor, lines, completed, stopped,
                    cancelled, tailWg, truncates >>
    /\ UNCHANGED << interpVars, critVars >>

NextDecode ==
    \/ FsWriteBytes
    \/ \E g \in Gors : GorRead(g)
    \/ \E g \in Gors : GorStat(g)
    \/ \E g \in Gors : GorSleep(g)
    \/ \E g \in Gors : GorWake(g)

SpecDecode == InitTailOnly /\ [][NextDecode]_vars

(***************************************************************************)
(* The test waker: wakees calling Wake(), and wakeFunc broadcasting.       *)
(***************************************************************************)
\* a test has made a waker for n wakees; n is the test's guess
InitWakerOnly ==
    /\ mode = AlertMode
    /\ concurrency = 1
    /\ outSet = TRUE
    /\ policy = [i \in Interps |-> NoPolicy]
    /\ InitInterp
    /\ InitTail
    /\ cin = [p |-> False, q |-> False, r |-> 0]
    /\ cout = NoCall
    /\ InitComp
    /\ \E n \in 0..NWakees : tw = NewTest(n)
    /\ wakee = [i \in Wakees |-> [pc |-> "run", w |-> 0]]

\* Wake(): t.mu.Lock()
WakeLock(i) ==
    /\ wakee[i].pc = "run"
    /\ tw.mu = "free"
    /\ tw' = [tw EXCEPT !.mu = "wakee"]
    /\ wakee' = [wakee EXCEPT ![i].pc = "locked"]
    /\ UNCHANGED << interpVars, tailVars, cin, cout, compVars >>

\* Wake(): w = t.wake
WakeRead(i) ==
    /\ wakee[i].pc = "locked"
    /\ wakee' = [wakee EXCEPT ![i] = [pc |-> "read", w |-> tw.wake]]
    /\ UNCHANGED tw
    /\ UNCHANGED << interpVars, tailVars, cin, cout, compVars >>

\* Wake(): t.mu.Unlock(), the goroutine that reports the wakee is started,
\* and w is returned: the wakee waits on it
WakeUnlock(i) ==
    /\ wakee[i].pc = "read"
    /\ tw' = [tw EXCEPT !.mu = "free", !.bg.done = @ + 1]
    /\ wakee' = [wakee EXCEPT ![i].pc = "select"]
    /\ UNCHANGED << interpVars, tailVars, cin, cout, compVars >>

\* case <-waker.Wake(): the channel the wakee holds has been closed
Woken(i) ==
    /\ wakee[i].pc = "select"
    /\ tw.closes[wakee[i].w] > 0
    /\ wakee' = [wakee EXCEPT ![i].pc = "run"]
    /\ UNCHANGED tw
    /\ UNCHANGED << interpVars, tailVars, cin, cout, compVars >>

\* the goroutine of NewTest receives from wakeeDone: a goroutine started by
\* Wake() goes on to wait
InitRecv ==
    /\ ~tw.initDone
    /\ tw.initCnt < tw.n
    /\ tw.bg.done > 0
    /\ tw' = [tw EXCEPT !.initCnt = @ + 1, !.bg.done = @ - 1, !.bg.wait = @ + 1]
    /\ UNCHANGED wakee
    /\ UNCHANGED << interpVars, tailVars, cin, cout, compVars >>

\* the goroutine of NewTest has received t.n times: close(initDone)
InitClose ==
    /\ ~tw.initDone
    /\ tw.initCnt >= tw.n
    /\ tw' = [tw EXCEPT !.initDone = TRUE]
    /\ UNCHANGED wakee
    /\ UNCHANGED << interpVars, tailVars, cin, cout, compVars >>

\* the test calls wakeFunc(after)
WakeFuncCall ==
    /\ tw.wf.pc = "idle"
    /\ tw.calls < MaxBroadcasts
    /\ \E after \in 0..NWakees :
           tw' = [tw EXCEPT !.wf = [pc |-> "init", i |-> 0, after |-> after],
                            !.calls = @ + 1]
    /\ UNCHANGED wakee
    /\ UNCHANGED << interpVars, tailVars, cin, cout, compVars >>

\* wakeFunc: <-initDone
WakeFuncInit ==
    /\ tw.wf.pc = "init"
    /\ tw.initDone
    /\ tw' = [tw EXCEPT !.wf.pc = "yield"]
    /\ UNCHANGED wakee
    /\ UNCHANGED << interpVars, tailVars, cin, cout, compVars >>

\* wakeFunc: t.wait <- struct{}{}, t.n times
WakeFuncYield ==
    /\ tw.wf.pc = "yield"
    /\ IF tw.wf.i < tw.n
       THEN /\ tw.bg.wait > 0
            /\ tw' = [tw EXCEPT !.wf.i = @ + 1, !.bg.wait = @ - 1,
                                !.bg.ready = @ + 1]
       ELSE tw' = [tw EXCEPT !.wf.pc = "ready", !.wf.i = 0]
    /\ UNCHANGED wakee
    /\ UNCHANGED << interpVars, tailVars, cin, cout, compVars >>

\* wakeFunc: <-t.wakeeReady, t.n times, then broadcastWakeAndReset is called
WakeFuncReady ==
    /\ tw.wf.pc = "ready"
    /\ IF tw.wf.i < tw.n
       THEN /\ tw.bg.ready > 0
            /\ tw' = [tw EXCEPT !.wf.i = @ + 1, !.bg.ready = @ - 1]
       ELSE tw' = [tw EXCEPT !.wf.pc = "lock", !.wf.i = 0]
    /\ UNCHANGED wakee
    /\ UNCHANGED << interpVars, tailVars, cin, cout, compVars >>

\* broadcastWakeAndReset: t.mu.Lock()
BroadcastLock ==
    /\ tw.wf.pc = "lock"
    /\ tw.mu = "free"
    /\ tw' = [tw EXCEPT !.mu = "wakeFunc", !.wf.pc = "close"]
    /\ UNCHANGED wakee
    /\ UNCHANGED << interpVars, tailVars, cin, cout, compVars >>

\* variant: the channel is replaced without being closed
BroadcastCloseSkipped ==
    /\ tw.wf.pc = "close"
    /\ tw' = [tw EXCEPT !.wf.pc = "make"]
    /\ UNCHANGED wakee
    /\ UNCHANGED << interpVars, tailVars, cin, cout, compVars >>

\* broadcastWakeAndReset: close(t.wake)
BroadcastClose ==
    /\ tw.wf.pc = "close"
    /\ tw' = [tw EXCEPT !.closes[tw.wake] = @ + 1, !.wf.pc = "make"]
    /\ UNCHANGED wakee
    /\ UNCHANGED << interpVars, tailVars, cin, cout, compVars >>

\* broadcastWakeAndReset: t.wake = make(chan struct{})
BroadcastMake ==
    /\ tw.wf.pc = "make"
    /\ tw' = [tw EXCEPT !.wake = tw.made, !.made = @ + 1, !.wf.pc = "unlock"]
    /\ UNCHANGED wakee
    /\ UNCHANGED << interpVars, tailVars, cin, cout, compVars >>

\* broadcastWakeAndReset: the deferred t.mu.Unlock()
BroadcastUnlock ==
    /\ tw.wf.pc = "unlock"
    /\ tw' = [tw EXCEPT !.mu = "free", !.wf.pc = "await"]
    /\ UNCHANGED wakee
    /\ UNCHANGED << interpVars, tailVars, cin, cout, compVars >>

\* wakeFunc: <-t.wakeeDone, after times, then t.n = after and return
WakeFuncAwait ==
    /\ tw.wf.pc = "await"
    /\ IF tw.wf.i < tw.wf.after
       THEN /\ tw.bg.done > 0
            /\ tw' = [tw EXCEPT !.wf.i = @ + 1, !.bg.done = @ - 1,
                                !.bg.wait = @ + 1]
       ELSE tw' = [tw EXCEPT !.n = tw.wf.after, !.wf.pc = "idle", !.wf.i = 0]
    /\ UNCHANGED wakee
    /\ UNCHANGED << interpVars, tailVars, cin, cout, compVars >>

\* case <-t.ctx.Done(): a goroutine started by Wake() returns
BgCancelled ==
    /\ cancelled
    /\ \E st \in {"done", "wait", "ready"} :
           /\ tw.bg[st] > 0
           /\ tw' = [tw EXCEPT !.bg[st] = @ - 1]
    /\ UNCHANGED wakee
    /\ UNCHANGED << interpVars, tailVars, cin, cout, compVars >>

NextWaker ==
    \/ \E i \in Wakees : WakeLock(i)
    \/ \E i \in Wakees : WakeRead(i)
    \/ \E i \in Wakees : WakeUnlock(i)
    \/ \E i \in Wakees : Woken(i)
    \/ InitRecv
    \/ InitClose
    \/ WakeFuncCall
    \/ WakeFuncInit
    \/ WakeFuncYield
    \/ WakeFuncReady
    \/ BroadcastLock
    \/ BroadcastClose
    \/ BroadcastMake
    \/ BroadcastUnlock
    \/ WakeFuncAwait
    \/ BgCancelled
    \/ Cancel

SpecWaker == InitWakerOnly /\ [][NextWaker]_vars

(***************************************************************************)
(* Properties of the interpreter.                                          *)
(***************************************************************************)
\* some enabled filter's predicate is true on value v
FilterHit(i, v) ==
    \E k \in DOMAIN policy[i].filters :
        policy[i].filters[k].Enabled /\ v \in policy[i].filters[k].condition.t

\* the positions of the enabled rules whose predicate is true on value v
RuleHits(i, v) ==
    {k \in DOMAIN policy[i].rules :
        policy[i].rules[k].Enabled /\ v \in policy[i].rules[k].condition.t}

\* number of out calls with record r
OutCount(r) == Cardinality({k \in DOMAIN outs : outs[k].r = r})

AcceptedSet(i) == {accepted[i][k] : k \in DOMAIN accepted[i]}

\* the workers of interpreter i hold no record and the intake is empty
Drained(i) ==
    /\ workerCh[i].buf = <<>>
    /\ \A w \in Workers : wrec[i][w] = 0

\* C1: a record on which an enabled filter's predicate is true is never
\* passed to out by a worker, and Process returns nil for it, whatever
\* rules match it, in both modes.
C1_FilterPrecedence ==
    /\ \A k \in DOMAIN outs : ~FilterHit(outs[k].pi, recs[outs[k].r])
    /\ \A s \in syncRes : FilterHit(s.pi, recs[s.r]) => s.res = 0

\* a worker has finished, and Process has returned for, a record that an
\* enabled filter and an enabled rule both match
C1_Witness ==
    /\ \E r \in finished[1] :
         FilterHit(1, recs[r]) /\ RuleHits(1, recs[r]) # {}
    /\ \E s \in syncRes :
         FilterHit(1, recs[s.r]) /\ RuleHits(1, recs[s.r]) # {}

\* C2: in enrich mode (with an output callback), once the workers have
\* drained, every record accepted by ProcessAsync that no enabled filter
\* matches has been passed to out exactly once; at no time is a record
\* passed twice.
C2_EnrichExactlyOnce ==
    (mode = EnrichMode /\ outSet) =>
        /\ \A r \in AcceptedSet(1) : OutCount(r) <= 1
        /\ Drained(1) =>
             \A r \in AcceptedSet(1) :
                 ~FilterHit(1, recs[r]) => OutCount(r) = 1

\* enrich mode, two workers, StopWorkers has returned, and an unfiltered
\* record that matches no enabled rule was forwarded
C2_Witness ==
    /\ mode = EnrichMode /\ outSet /\ concurrency = 2
    /\ stopPc[1] = "returned"
    /\ Len(accepted[1]) >= 2
    /\ \E r \in AcceptedSet(1) :
         ~FilterHit(1, recs[r]) /\ RuleHits(1, recs[r]) = {} /\ OutCount(r) = 1

\* C3: in alert mode a record is forwarded (out called, or returned by
\* Process) only if an enabled rule's predicate is true on it; a record
\* that matches no enabled rule is discarded.
C3_AlertNeedsRule ==
    mode = AlertMode =>
        /\ \A k \in DOMAIN outs : RuleHits(outs[k].pi, recs[outs[k].r]) # {}
        /\ \A s \in syncRes : s.res # 0 => RuleHits(s.pi, recs[s.r]) # {}

\* alert mode: a finished record that passes the filters and on which only
\* a disabled rule is true was not forwarded
C3_Witness ==
    /\ mode = AlertMode /\ outSet
    /\ \E r \in finished[1] :
         /\ ~FilterHit(1, recs[r])
         /\ RuleHits(1, recs[r]) = {}
         /\ \E k \in DOMAIN policy[1].rules : recs[r] \in policy[1].rules[k].condition.t
         /\ OutCount(r) = 0

\* the metadata of the enabled rules true on value v, in declared order
RECURSIVE MatchedMeta(_, _, _)
MatchedMeta(rs, k, v) ==
    IF k > Len(rs) THEN <<>>
    ELSE (IF rs[k].Enabled /\ v \in rs[k].condition.t
          THEN << [Name |-> rs[k].Name, Tags |-> rs[k].Tags,
                   Priority |-> rs[k].Priority, Actions |-> rs[k].Actions] >>
          ELSE <<>>) \o MatchedMeta(rs, k + 1, v)

\* C4: after a worker has processed a record that passes the filters, the
\* record's context holds the metadata of exactly the enabled rules whose
\* predicate is true on it, one entry per rule in declared order.
C4_RulesAdditive ==
    \A r \in finished[1] :
        ~FilterHit(1, recs[r]) => ctx[r] = MatchedMeta(policy[1].rules, 1, recs[r])

\* C5: when StopWorkers has returned, every record ProcessAsync sent on the
\* intake has been completely processed, the intake is empty and all the
\* workers have terminated.
C5_StopWorkersDrains ==
    stopPc[1] = "returned" =>
        /\ AcceptedSet(1) \subseteq finished[1]
        /\ workerCh[1].buf = <<>>
        /\ \A w \in Workers : w <= concurrency => wpc[1][w] = "done"
        /\ wg[1] = 0

\* StopWorkers has returned although records were still queued or held
\* by a worker when the intake was closed
C5_Witness ==
    /\ stopPc[1] = "returned"
    /\ Cardinality(atClose[1]) >= 2
    /\ concurrency = 2

\* s is a subsequence of t
RECURSIVE IsSubseq(_, _)
IsSubseq(s, t) ==
    IF s = <<>> THEN TRUE
    ELSE IF t = <<>> THEN FALSE
    ELSE IF Head(s) = Head(t) THEN IsSubseq(Tail(s), Tail(t))
    ELSE IsSubseq(s, Tail(t))

\* the records passed to out by worker w of interpreter i, in call order
RECURSIVE OutsOf(_, _, _)
OutsOf(o, i, w) ==
    IF o = <<>> THEN <<>>
    ELSE (IF Head(o).pi = i /\ Head(o).w = w THEN << Head(o).r >> ELSE <<>>)
         \o OutsOf(Tail(o), i, w)

\* the records passed to out, in call order
OutRecs == [k \in DOMAIN outs |-> outs[k].r]

\* C6: the records one worker forwards appear in the order in which that
\* worker received them, which is the order of their submission; with
\* concurrency 1 the forwarded records are a subsequence of the submission
\* order.
C6_PerWorkerFifo ==
    /\ \A w \in Workers :
         /\ IsSubseq(OutsOf(outs, 1, w), wrecv[1][w])
         /\ IsSubseq(wrecv[1][w], accepted[1])
    /\ concurrency = 1 => IsSubseq(OutRecs, accepted[1])

\* the single worker has received two records and forwarded both
C6_Witness ==
    /\ concurrency = 1
    /\ Len(wrecv[1][1]) = 2
    /\ OutsOf(outs, 1, 1) = wrecv[1][1]

\* with two workers the out calls can be in another order than the
\* submissions
C6_CrossWorkerReorder ==
    /\ concurrency = 2
    /\ ~IsSubseq(OutRecs, accepted[1])

(***************************************************************************)
(* Properties of the hot reload.                                           *)
(***************************************************************************)
\* the workers of interpreter i have all terminated and every record sent
\* to it has been processed
Stopped(i) ==
    /\ stopPc[i] = "returned"
    /\ wg[i] = 0
    /\ \A w \in Workers : wpc[i][w] \in {"none", "done"}
    /\ AcceptedSet(i) \subseteq finished[i]

\* the input records the dispatch loop is done with
Dispatched == (1..Len(recs)) \ {drec}

CleanFilterHit(i, v) ==
    \E k \in DOMAIN policy[i].filters :
        /\ policy[i].filters[k].Enabled
        /\ Eval(policy[i].filters[k].condition, v).res
        /\ ~Eval(policy[i].filters[k].condition, v).err

\* the enabled rules whose predicate is true on value v and returns no error
CleanRuleHits(i, v) ==
    {k \in DOMAIN policy[i].rules :
        /\ policy[i].rules[k].Enabled
        /\ Eval(policy[i].rules[k].condition, v).res
        /\ ~Eval(policy[i].rules[k].condition, v).err}

\* C18: a predicate that returns an error counts as not matching: in alert
\* mode a record is forwarded only if an enabled rule is true on it without
\* error, and in enrich mode a record that no enabled filter matches
\* without error is forwarded once the workers have drained.
C18_ErrorIsNoMatch ==
    /\ mode = AlertMode =>
         /\ \A k \in DOMAIN outs : CleanRuleHits(outs[k].pi, recs[outs[k].r]) # {}
         /\ \A s \in syncRes : s.res # 0 => CleanRuleHits(s.pi, recs[s.r]) # {}
    /\ (mode = EnrichMode /\ outSet /\ Drained(1)) =>
         \A r \in AcceptedSet(1) :
             ~CleanFilterHit(1, recs[r]) => OutCount(r) = 1

(***************************************************************************)
(* Properties of the log file stream.                                      *)
(***************************************************************************)
\* the payload bytes of a byte sequence
Payload(t) == {t[k] : k \in DOMAIN t} \ {NL, CR}

\* the line t was written wholly after the line u
WrittenAfter(t, u) ==
    /\ Payload(t) # {}
    /\ Payload(u) # {}
    /\ \A a \in Payload(t), b \in Payload(u) : a > b

\* C8: the lines sent for the pathname are in file-write order: a line
\* written later is never sent before a line written earlier.
C8_TailerOrder ==
    \A i \in DOMAIN lines, j \in DOMAIN lines :
        i < j => ~WrittenAfter(lines[i].text, lines[j].text)

\* the complete (newline-terminated) lines of a file's content, in order;
\* p is the line being collected
RECURSIVE CompleteLinesFrom(_, _)
CompleteLinesFrom(data, p) ==
    IF data = <<>> THEN <<>>
    ELSE IF Head(data) = NL THEN <<p>> \o CompleteLinesFrom(Tail(data), <<>>)
    ELSE CompleteLinesFrom(Tail(data), Append(p, Head(data)))

CompleteLines(data) == CompleteLinesFrom(data, <<>>)

\* the complete lines of the files that were at the pathname, oldest first
RECURSIVE LinesUpTo(_)
LinesUpTo(n) ==
    IF n = 0 THEN <<>> ELSE LinesUpTo(n - 1) \o CompleteLines(files[n])

\* the texts of the lines sent so far
Texts == [k \in DOMAIN lines |-> lines[k].text]

\* goroutine g is running on the file at the pathname and has decoded all
\* of it
CaughtUp(g) ==
    /\ g <= nGor
    /\ gor[g].pc \notin {"ret", "done"}
    /\ pathIno # 0
    /\ gor[g].fd = pathIno
    /\ gor[g].off = Len(files[pathIno])

\* C9: a stream that hands over to a new stream after a rotation has read
\* its old file to the end, and once the new stream has read all of the new
\* file the lines sent are exactly the complete lines of the old files
\* followed by those of the new file, each once.
C9_Rotation ==
    /\ \A g \in Gors :
           gor[g].pc = "spawn" => gor[g].off = Len(files[gor[g].fd])
    /\ \A g \in Gors :
           (CaughtUp(g) /\ fsCount.ino > 1 /\ fsCount.truncs = 0)
               => Texts = LinesUpTo(pathIno)

\* t ends with s
IsSuffix(s, t) ==
    /\ Len(s) <= Len(t)
    /\ SubSeq(t, Len(t) - Len(s) + 1, Len(t)) = s

\* goroutine g is at EOF of a file that is still the one it was started on
\* and is now shorter than its read offset
TruncationSeen(g) ==
    /\ gor[g].pc = "stat"
    /\ pathIno # 0
    /\ pathIno = gor[g].fi
    /\ Len(files[pathIno]) < gor[g].off

\* the step in which g stats the pathname without error
StatStep(g) == gor[g].pc = "stat" /\ gor'[g].pc \notin {"stat", "sleep"}

\* what the truncation branch does: the partial buffer is sent as a line
\* only if it is not empty, the offset goes back to 0 and g reads on
TruncationHandled(g) ==
    /\ lines' = IF gor[g].partial # <<>>
                THEN Append(lines, [text |-> gor[g].partial, g |-> g])
                ELSE lines
    /\ gor'[g] = [gor[g] EXCEPT !.pc = "read", !.off = 0, !.partial = <<>>]
    /\ truncates' = truncates + 1

\* every truncation so far was seen by the stream, there was no rotation,
\* and g has decoded all of the file again
CaughtUpAfterTruncation(g) ==
    /\ CaughtUp(g)
    /\ fsCount.ino = 1
    /\ truncates >= 1
    /\ truncates = fsCount.truncs

\* C10: a stream that finds at EOF the same file shorter than its offset
\* sends the partial buffer as a line only if it is not empty, seeks to 0
\* and reads on; and once it has read the file again the lines written
\* after the truncation are the last lines sent.
C10_Truncation ==
    /\ [][\A g \in Gors :
             (TruncationSeen(g) /\ StatStep(g)) => TruncationHandled(g)]_vars
    /\ [](\A g \in Gors :
             CaughtUpAfterTruncation(g)
                 => IsSuffix(CompleteLines(files[pathIno]), Texts))

\* lines were sent, the stream saw the file truncated, and the lines
\* written after the truncation were sent after them, none of them empty
C10_Witness ==
    /\ \E g \in Gors : CaughtUpAfterTruncation(g)
    /\ CompleteLines(files[1]) # <<>>
    /\ Len(lines) > Len(CompleteLines(files[1]))
    /\ IsSuffix(CompleteLines(files[1]), Texts)
    /\ \A k \in DOMAIN lines : lines[k].text # <<>>

\* the bytes of its file that goroutine g has not read
Unread(g) == SubSeq(files[gor[g].fd], gor[g].off + 1, Len(files[gor[g].fd]))

\* goroutine g, the last one of the stream, has exited on Stop (the file is
\* still the one at the pathname, the context is not cancelled)
ExitedOnStop(g) ==
    /\ g = nGor
    /\ gor[g].pc = "done"
    /\ completed
    /\ stopped
    /\ ~cancelled
    /\ gor[g].fd = pathIno

\* C11 as stated: a stream never exits on stop while unread complete lines
\* remain in the file.
C11_NoUnreadAtStop ==
    \A g \in Gors :
        ExitedOnStop(g) => \A k \in DOMAIN Unread(g) : Unread(g)[k] # NL

\* a waiting stream goes on only to another read, without sending a line
WaitThenRead(g) ==
    (gor[g].pc = "wait" /\ gor'[g] # gor[g])
        => (gor'[g].pc = "read" /\ lines' = lines)

\* unless the context is cancelled the stream comes to the stop test only
\* by way of a read that found the end of the file, everything before it
\* decoded
SleepOnlyAtEOF(g) ==
    /\ (gor[g].pc # "sleep" /\ gor'[g].pc = "sleep" /\ ~cancelled)
           => gor[g].pc = "stat"
    /\ (gor[g].pc # "stat" /\ gor'[g].pc = "stat")
           => (gor[g].pc = "read" /\ gor[g].off >= Len(files[gor[g].fd]))

\* the exit at the stop test: stop or cancellation was signalled, the
\* partial buffer is sent as a last line if it is not empty, completed is set
StopExit(g) ==
    (gor[g].pc = "sleep" /\ gor'[g].pc = "done")
        => /\ stopped \/ cancelled
           /\ lines' = IF gor[g].partial # <<>>
                       THEN Append(lines, [text |-> gor[g].partial, g |-> g])
                       ELSE lines
           /\ completed'

\* C11 (amended): a stream waiting for a wake-up answers Stop with a further
\* read; it exits on stop only after a read that found EOF with all earlier
\* data decoded, and on exit sends a non-empty partial buffer as a last
\* line and sets completed.  (Lines written after that last read stay
\* unread.)
C11_GracefulStop ==
    [][\A g \in Gors : WaitThenRead(g) /\ SleepOnlyAtEOF(g) /\ StopExit(g)]_vars

\* the stream was stopped, read the file to its end and exited with the
\* unterminated last line sent as the final line
C11_Witness ==
    /\ ExitedOnStop(nGor)
    /\ Unread(nGor) = <<>>
    /\ OpenLine(files[pathIno])
    /\ CompleteLines(files[pathIno]) # <<>>
    /\ Len(Texts) = Len(CompleteLines(files[pathIno])) + 1
    /\ SubSeq(Texts, 1, Len(Texts) - 1) = CompleteLines(files[pathIno])

\* C12: once the stream is completed (IsComplete returns true) it sends
\* no further line and completed stays true.
C12_CompletedIsFinal ==
    [][completed => (lines' = lines /\ completed')]_vars

\* the stream completed when its file was gone; a file with complete lines
\* is at the pathname again and none of its lines was sent
C12_Witness ==
    /\ completed
    /\ lines # <<>>
    /\ pathIno = 2
    /\ gor[nGor].fd = 1
    /\ gor[nGor].pc = "done"
    /\ CompleteLines(files[2]) # <<>>
    /\ Texts = CompleteLines(files[1])

\* goroutine g is in the read loop of the stream
Active(g) == gor[g].pc \in {"read", "stat", "spawn", "reopen", "sleep", "wait"}

\* C13: at most one goroutine of a stream is in the read loop at any time,
\* it is the one started last, and every line is sent by it: a goroutine
\* that has started a successor sends no line any more.
C13_OneActiveStream ==
    /\ [](/\ Cardinality({g \in Gors : Active(g)}) <= 1
          /\ \A g \in Gors : Active(g) => g = nGor)
    /\ [][\A k \in DOMAIN lines' :
             k > Len(lines) => (lines'[k].g = nGor /\ Active(nGor))]_vars

\* the first goroutine sent a line and started a successor after a
\* rotation; it has not returned yet and the successor has sent a line
C13_Witness ==
    /\ nGor = 2
    /\ gor[1].pc = "ret"
    /\ Active(2)
    /\ \E k \in DOMAIN lines : lines[k].g = 1
    /\ \E k \in DOMAIN lines : lines[k].g = 2

(***************************************************************************)
(* Properties of the criterion combinators.                                *)
(***************************************************************************)
\* what p and q themselves return on the record
PRet == Returned(CritEval(P, cin.r))
QRet == Returned(CritEval(Q, cin.r))

\* the leaf predicates an evaluation called
Called(e) == {e.calls[k] : k \in DOMAIN e.calls}

\* C14: on a record on which p does not err, And(p, True), Or(p, False),
\* All([p]) and Any([p]) return the boolean p returns.
C14_IdentityLaws ==
    PRet.err = ErrNil =>
        /\ (cout.op = "And" /\ cout.arg = "True") => cout.ab.res = PRet.res
        /\ (cout.op = "Or" /\ cout.arg = "False") => cout.ab.res = PRet.res
        /\ (cout.op = "All" /\ cout.arg = "p") => cout.out.res = PRet.res
        /\ (cout.op = "Any" /\ cout.arg = "p") => cout.out.res = PRet.res

\* C15: Not(p) returns the negation of p's boolean and p's error, and
\* Not(Not(p)) returns p's boolean.
C15_Negation ==
    cout.op = "Not" =>
        /\ cout.n.res = ~PRet.res
        /\ cout.n.err = PRet.err
        /\ cout.nn.res = PRet.res

\* C16: on a record on which neither p nor q errs, And(p, q) and And(q, p)
\* return the same boolean.
C16_AndCommutes ==
    (cout.op = "And" /\ cout.arg = "q" /\ PRet.err = ErrNil /\ QRet.err = ErrNil)
        => cout.ab.res = cout.ba.res

\* And(p, q) and And(q, p) were evaluated on a record on which neither
\* errs and on which p and q differ
C16_Witness ==
    /\ cout.op = "And"
    /\ cout.arg = "q"
    /\ PRet.err = ErrNil
    /\ QRet.err = ErrNil
    /\ PRet.res # QRet.res
    /\ cout.ab.res = cout.ba.res

\* C17: when p errs on the record, And(p, q) still evaluates q and returns
\* the conjunction of the two booleans with p's error; Or(p, q) likewise
\* with the disjunction.
C17_ErrorTolerant ==
    (cout.op \in {"And", "Or"} /\ cout.arg = "q" /\ PRet.err # ErrNil) =>
        /\ "q" \in Called(cout.ab)
        /\ cout.ab.err = PRet.err
        /\ cout.op = "And" => cout.ab.res = (PRet.res /\ QRet.res)
        /\ cout.op = "Or" => cout.ab.res = (PRet.res \/ QRet.res)

(***************************************************************************)
(* Properties of the comparison operations.                                *)
(***************************************************************************)
\* the characters of a string
CharsOf(t) == {t[k] : k \in DOMAIN t}

\* C19 as stated: on a record on which the mapped value of a holds no list
\* separator, In(a, [x]) returns what Eq(a, x) returns, for every string
\* x; In(a, []) is false.
C19_InIsEq ==
    cout.op = "In" =>
        /\ (cout.list = "x" /\ LISTSEP \notin CharsOf(MapStr(cin.attr, cin.r)))
               => cout.res = Eq(cin.attr, cin.x, cin.r)
        /\ cout.list = "empty" => cout.res = FALSE

\* C19 (amended): In(a, [x]) returns what Eq(a, x) returns for every string
\* x that MapStr leaves as it is (x names no attribute and has no bounding
\* quote); In(a, []) is false.
C19_InIsEqOfLiteral ==
    cout.op = "In" =>
        /\ (cout.list = "x" /\ MapStr(cin.x, cin.r) = cin.x)
               => cout.res = Eq(cin.attr, cin.x, cin.r)
        /\ cout.list = "empty" => cout.res = FALSE

\* In(a, [x]) was evaluated to true for a literal x and a value without
\* list separator
C19_Witness ==
    /\ cout.op = "In"
    /\ cout.list = "x"
    /\ MapStr(cin.x, cin.r) = cin.x
    /\ cin.x # <<>>
    /\ LISTSEP \notin CharsOf(MapStr(cin.attr, cin.r))
    /\ cout.res = TRUE

\* the values an operation compares: the mapped value of the attribute on
\* the left; on the right the mapped value of x, or for In and PMatch the
\* elements of the list as they are
LeftValue == MapStr(cin.attr, cin.r)

RightValues ==
    IF cout.op \in {"In", "PMatch"}
    THEN {ListOf(cout.list)[k] : k \in DOMAIN ListOf(cout.list)}
    ELSE {MapStr(cin.x, cin.r)}

\* the pieces of a value between list separators
Pieces(t) == {Split(t)[k] : k \in DOMAIN Split(t)}

\* some piece of the left value and some piece of a right value satisfy
\* the string primitive of the operation
SomePair ==
    \E v \in RightValues : \E l \in Pieces(LeftValue), r \in Pieces(v) :
        Ops(cout.prim, l, r)

\* C20: every comparison operation returns true iff some pair of a piece
\* of its left value and a piece of its right value (both split on the list
\* separator) satisfies its string primitive.
C20_AnyPair ==
    cout.op # "none" => (cout.res = SomePair)

\* an equality was found true between values that are both lists and
\* differ, and whose first pieces are not equal
C20_Witness ==
    /\ cout.op = "Eq"
    /\ cout.res = TRUE
    /\ LISTSEP \in CharsOf(LeftValue)
    /\ LISTSEP \in CharsOf(MapStr(cin.x, cin.r))
    /\ LeftValue # MapStr(cin.x, cin.r)
    /\ Split(LeftValue)[1] # Split(MapStr(cin.x, cin.r))[1]

(***************************************************************************)
(* Properties of the policy compiler.                                      *)
(***************************************************************************)
\* the items of the first policy file
FileItems == paths[1].items

IsDef(item) == item.kind \in {"list", "macro"}

\* the definitions among the items j+1.. of a file
DefsAfter(items, j) == SelectSeq(SubSeq(items, j + 1, Len(items)), IsDef)

\* some name is defined both before and after item j
RedefinedAcross(items, j) ==
    \E a \in 1..(j - 1), b \in (j + 1)..Len(items) :
        /\ IsDef(items[a])
        /\ items[a].kind = items[b].kind
        /\ items[a].id = items[b].id

\* the lists and macros of a sequence of definitions read in order
RECURSIVE Collected(_, _)
Collected(defs, pi) ==
    IF defs = <<>> THEN pi
    ELSE Collected(Tail(defs),
                   IF Head(defs).kind = "list" THEN ExitPlist(pi, Head(defs))
                   ELSE IF Head(defs).kind = "macro" THEN ExitPmacro(pi, Head(defs))
                   ELSE pi)

\* the predicate of item j when the definitions that follow it in the file
\* are moved in front of it and the file is read in order
DefsFirst(items, j) ==
    LET pi == Collected(SubSeq(items, 1, j - 1) \o DefsAfter(items, j),
                        NewPolicyInterpreter)
    IN visitExpression(items[j].expr, pi.lists, pi.macroCtxs, 0)

\* the filter or rule the walk over the policy has just visited (0: none)
Visited ==
    IF cpc.path = 1 /\ cpc.pass = "policy" /\ cpc.k > 1 THEN cpc.k - 1
    ELSE IF cpc.path = 1 /\ cpc.pass = "fatal" THEN cpc.k
    ELSE 0

\* the predicate compiled last for an item of the given kind
LastCompiled(kind) ==
    IF kind = "rule" THEN pic.rules[Len(pic.rules)].condition
    ELSE pic.filters[Len(pic.filters)].condition

\* C21: a rule or filter that refers to lists and macros defined later in
\* its file (and not also before it) is compiled to the predicate it is
\* compiled to when those definitions precede it.
C21_ForwardReferences ==
    (/\ Visited # 0
     /\ ~IsDef(FileItems[Visited])
     /\ ~RedefinedAcross(FileItems, Visited))
        => IF cpc.pass = "fatal"
           THEN ~DefsFirst(FileItems, Visited).ok
           ELSE /\ DefsFirst(FileItems, Visited).ok
                /\ LastCompiled(FileItems[Visited].kind)
                       = DefsFirst(FileItems, Visited).val

\* a rule that comes first in its file refers to a macro defined after it,
\* which refers to a list defined after the macro; the rule was compiled
\* to the membership in the items of the list
C21_Witness ==
    /\ Visited = 1
    /\ FileItems[1] = Prule(RefTerm(<<"m">>))
    /\ FileItems[2] = Pmacro(<<"m">>, InTerm(<< <<"L">> >>))
    /\ FileItems[3] = Plist(<<"L">>, << <<"A">> >>)
    /\ cpc.pass = "policy"
    /\ LastCompiled("rule")
           = AnyPred(<< AllPred(<< AnyPred(<< AllPred(<<
                 InPred(<<"a">>, << <<"A">> >>) >>) >>) >>) >>)

\* the list definitions as they are written in the file, in force when item
\* j is visited: for each name the atoms of its last definition before j,
\* and of its last definition in the file when none precedes j
RECURSIVE WrittenIn(_, _)
WrittenIn(items, w) ==
    IF items = <<>> THEN w
    ELSE WrittenIn(Tail(items),
                   IF Head(items).kind = "list"
                   THEN Put(w, Head(items).id, Head(items).atoms) ELSE w)

WrittenLists(items, j) == WrittenIn(SubSeq(items, 1, j - 1), WrittenIn(items, <<>>))

\* the lists that the definition of id refers to by name, directly and
\* through at most n further lists
RECURSIVE RefersTo(_, _, _)
RefersTo(w, id, n) ==
    LET direct == {w[id][k] : k \in DOMAIN w[id]} \cap DOMAIN w
    IN IF n = 0 THEN direct
       ELSE direct \cup UNION {RefersTo(w, d, n - 1) : d \in direct}

\* no list refers to itself, directly or through other lists
Acyclic(w) == \A id \in DOMAIN w : id \notin RefersTo(w, id, Cardinality(DOMAIN w))

\* the leaf string literals of a sequence of atoms: a list name stands for
\* the leaves of the list's atoms, in order; a literal for its text without
\* the quotes
RECURSIVE Leaves(_, _)
Leaves(atoms, w) ==
    IF atoms = <<>> THEN <<>>
    ELSE (IF Head(atoms) \in DOMAIN w THEN Leaves(w[Head(atoms)], w)
          ELSE << TrimBoundingQuotes(Head(atoms)) >>) \o Leaves(Tail(atoms), w)

\* the walk has just visited a filter or rule whose expression is an IN term
VisitedIn ==
    /\ Visited # 0
    /\ ~IsDef(FileItems[Visited])
    /\ FileItems[Visited].expr.t = "in"

\* the list of the In predicate compiled last
CompiledList(kind) == LastCompiled(kind).args[1].args[1].list

\* C22: when the list definitions are acyclic the atoms of an IN term are
\* expanded, the expansion ending, to the leaf string literals of the lists
\* they name, nested lists replaced by their items from left to right.
C22_ListFlattening ==
    (VisitedIn /\ Acyclic(WrittenLists(FileItems, Visited)))
        => /\ cpc.pass # "fatal"
           /\ CompiledList(FileItems[Visited].kind)
                  = Leaves(FileItems[Visited].expr.atoms,
                           WrittenLists(FileItems, Visited))

\* the path cannot be read, or the lexer or the parser reported an error
\* on it
Failing(path) == ~path.readable \/ path.lexerErrors > 0 \/ path.parserErrors > 0

\* C23: Compile takes the paths in order and never goes past a path that
\* cannot be read or has a lexer or parser error: it returns a non-nil
\* error at the first such path, and nil only after the last path when no
\* path is such.
C23_CompileErrors ==
    /\ cpc.path >= 1 => \A i \in 1..(cpc.path - 1) : ~Failing(paths[i])
    /\ cpc.pass = "returned" =>
          /\ cret \in {"err", "nil"}
          /\ cret = "err" <=> Failing(paths[cpc.path])
          /\ cret = "nil" <=>
                 (cpc.path = Len(paths) /\ \A i \in DOMAIN paths : ~Failing(paths[i]))
    /\ cpc.pass # "returned" => cret = "none"

\* Compile returned an error for a first path on which only the parser
\* reported errors; the second path, which has no error and defines a list,
\* was not compiled
C23_Witness ==
    /\ Len(paths) = 2
    /\ cpc.pass = "returned"
    /\ cpc.path = 1
    /\ cret = "err"
    /\ paths[1].readable /\ paths[1].lexerErrors = 0 /\ paths[1].parserErrors > 0
    /\ ~Failing(paths[2])
    /\ paths[2].items[1].kind = "list"
    /\ DOMAIN pic.lists = {}

\* the step in which g finds the pathname gone: it is taken only when the
\* file does not exist, sends the partial buffer as a last line if it is not
\* empty, sets completed and ends the goroutine
NotExistHandled(g) ==
    (gor[g].pc = "stat" /\ gor'[g].pc = "done")
        => /\ pathIno = 0
           /\ lines' = IF gor[g].partial # <<>>
                       THEN Append(lines, [text |-> gor[g].partial, g |-> g])
                       ELSE lines
           /\ completed'
           /\ tailWg' = tailWg - 1

\* while the file does not exist a stat leads to nothing but that exit or,
\* on another error, the Sleep label
GoneIsNotRotation(g) ==
    (gor[g].pc = "stat" /\ pathIno = 0 /\ gor'[g] # gor[g])
        => \/ gor'[g].pc = "done"
           \/ gor'[g].pc = "sleep" /\ gor'[g].serr

\* an error of stat other than NotExist sends nothing, leaves completed and
\* the partial buffer as they are and goes to the Sleep label
StatErrorSleeps(g) ==
    (gor[g].pc = "stat" /\ gor'[g].serr)
        => /\ gor'[g].pc = "sleep"
           /\ lines' = lines
           /\ completed' = completed
           /\ gor'[g].partial = gor[g].partial

\* after such an error the stream goes on to wait for a wake-up, completed
\* false
WaitsAfterStatError(g) ==
    (gor[g].pc = "sleep" /\ gor[g].serr /\ gor'[g] # gor[g])
        => (gor'[g].pc = "wait" /\ ~completed')

\* after such an error the stream waits for a wake-up with completed false,
\* unless stop or cancellation was signalled: then it ends as it does on any
\* stop
StopOrWaitAfterStatError(g) ==
    (gor[g].pc = "sleep" /\ gor[g].serr /\ gor'[g] # gor[g])
        => IF stopped \/ cancelled
           THEN /\ gor'[g].pc = "done"
                /\ completed'
                /\ lines' = IF gor[g].partial # <<>>
                            THEN Append(lines, [text |-> gor[g].partial, g |-> g])
                            ELSE lines
           ELSE /\ gor'[g].pc = "wait"
                /\ ~completed'
                /\ lines' = lines
                /\ gor'[g].partial = gor[g].partial

\* C24 as stated: at EOF with no bytes, when stat reports that the file does
\* not exist the stream sends a non-empty partial buffer as a last line,
\* sets completed and its goroutine exits; after any other stat error
\* completed stays false and the stream waits for the next wake-up.
C24_FileRemoved ==
    [][\A g \in Gors : /\ NotExistHandled(g)
                       /\ GoneIsNotRotation(g)
                       /\ StatErrorSleeps(g)
                       /\ WaitsAfterStatError(g)]_vars

\* C24 (amended): as stated, except that after another stat error the
\* stream waits for the next wake-up only if neither stop nor cancellation
\* was signalled; otherwise it flushes, sets completed and exits.
C24_FileRemovedOrStopped ==
    [][\A g \in Gors : /\ NotExistHandled(g)
                       /\ GoneIsNotRotation(g)
                       /\ StatErrorSleeps(g)
                       /\ StopOrWaitAfterStatError(g)]_vars

\* the file was removed while its last line was not terminated: the stream,
\* neither stopped nor cancelled, sent the complete lines, then the rest as
\* a last line, and is completed
C24_Witness ==
    /\ completed
    /\ ~stopped
    /\ ~cancelled
    /\ pathIno = 0
    /\ nGor = 1
    /\ gor[1].pc = "done"
    /\ tailWg = 0
    /\ OpenLine(files[1])
    /\ CompleteLines(files[1]) # <<>>
    /\ Len(lines) = Len(CompleteLines(files[1])) + 1
    /\ lines[Len(lines)].text # <<>>

\* the bytes of its file that goroutine g has read
ReadSoFar(g) == SubSeq(files[gor[g].fd], 1, gor[g].off)

\* number of newlines in a byte sequence
Newlines(data) == Cardinality({k \in DOMAIN data : data[k] = NL})

\* C25: whatever the reads the bytes of a file arrive in, the stream has
\* sent one line per newline read, each the runes between two newlines
\* without the carriage returns, and holds the runes after the last newline
\* in the partial buffer: lines and buffer are those of one decoding of all
\* the bytes read; no line holds a newline or a carriage return.
C25_LineDecoding ==
    \A g \in Gors :
        gor[g].pc \in {"read", "stat", "sleep", "wait"} =>
            /\ Len(lines) = Newlines(ReadSoFar(g))
            /\ \A k \in DOMAIN lines :
                   \A j \in DOMAIN lines[k].text : lines[k].text[j] \notin {NL, CR}
            /\ lines = DecodeAndSend(ReadSoFar(g), <<>>, <<>>, g).lines
            /\ gor[g].partial = DecodeAndSend(ReadSoFar(g), <<>>, <<>>, g).partial

\* broadcasts that have closed and replaced the channel
BroadcastsDone ==
    IF tw.wf.pc \in {"await", "idle"} THEN tw.calls ELSE tw.calls - 1

\* outside a broadcast the channels closed are those before the current
\* one, each closed once, and the current one is the last made and open
SwappedUnderMutex ==
    tw.mu # "wakeFunc" =>
        /\ tw.wake = BroadcastsDone
        /\ tw.made = tw.wake + 1
        /\ \A c \in Chans : tw.closes[c] = IF c < tw.wake THEN 1 ELSE 0

\* a wakee waiting on a channel that is no longer the current one can go on
WokenByBroadcast ==
    \A i \in Wakees :
        (wakee[i].pc = "select" /\ wakee[i].w # tw.wake) =>
            tw.closes[wakee[i].w] = 1

\* Wake() hands out the current channel, open; a channel is closed or
\* replaced only by a step of a broadcast holding the mutex, which closes
\* the current channel
WakeStep ==
    /\ \A i \in Wakees :
           (wakee[i].pc = "locked" /\ wakee'[i].pc = "read") =>
               /\ wakee'[i].w = tw.wake
               /\ tw.closes[tw.wake] = 0
    /\ (tw'.wake # tw.wake \/ tw'.closes # tw.closes) =>
           /\ tw.mu = "wakeFunc"
           /\ tw'.mu = "wakeFunc"
    /\ \A c \in Chans :
           tw'.closes[c] # tw.closes[c] =>
               /\ c = tw.wake
               /\ tw.closes[c] = 0
               /\ tw'.closes[c] = 1

\* C26: each broadcast closes the current wake channel once and installs a
\* fresh open one while it holds the mutex; a wakee that got its channel
\* from Wake() before a broadcast is woken by it, a wakee that calls Wake()
\* after it gets a channel that stays open until the next broadcast, and no
\* channel is closed twice.
C26_WakerBroadcast ==
    /\ [](SwappedUnderMutex /\ WokenByBroadcast
            /\ \A c \in Chans : tw.closes[c] <= 1)
    /\ [][WakeStep]_vars

\* one wakee was woken by the first broadcast and waits on the second
\* channel, open; the other still holds the first channel, closed
C26_Witness ==
    /\ tw.wake = 1
    /\ tw.mu = "free"
    /\ tw.closes[0] = 1
    /\ tw.closes[1] = 0
    /\ wakee[1].pc = "select"
    /\ wakee[1].w = 1
    /\ wakee[2].pc = "select"
    /\ wakee[2].w = 0

\* C27: once the context is cancelled every goroutine of the stream ends
\* and the stream is completed: the wait group returns to zero, completed
\* is set, and no goroutine is left waiting on the waker.
C27_CancellationLiveness ==
    cancelled ~> (/\ tailWg = 0
                  /\ completed
                  /\ \A g \in Gors : gor[g].pc \in {"none", "done"})

\* once the context is cancelled every goroutine of the stream ends
C27_AllExit ==
    cancelled ~> (/\ tailWg = 0
                  /\ \A g \in Gors : gor[g].pc \in {"none", "done"})

\* the bound on goroutines never keeps a goroutine from starting the next
C27_SpawnNotBlocked ==
    \A g \in Gors : gor[g].pc \in {"spawn", "reopen"} => nGor < MaxGor

\* goroutine g leaves its loop in this step
Exits(g) ==
    /\ gor[g].pc \notin {"none", "ret", "done"}
    /\ gor'[g].pc \in {"ret", "done"}

\* C28: whenever a goroutine of the stream leaves its loop (stop,
\* cancellation, file removed, rotation hand-over, re-open after ESTALE) its
\* partial buffer is empty or is sent as a line in that step.
C28_NoDataLostAtExit ==
    [][\A g \in Gors :
          Exits(g) =>
              \/ gor[g].partial = <<>>
              \/ /\ Len(lines') = Len(lines) + 1
                 /\ lines'[Len(lines')].text = gor[g].partial]_vars

\* the out callback was called on record a by a worker of interpreter i
Forwarded(i, a) == \E k \in DOMAIN outs : outs[k].r = a /\ outs[k].pi = i

\* C29: with an output callback set, in every mode, for a record given to
\* Process and a record of the same value a worker has dealt with after
\* ProcessAsync, Process returned the record exactly when the worker called
\* out on its record, and returned nil exactly when the worker did not.
C29_SyncAsyncAgree ==
    outSet =>
        \A s \in syncRes :
            /\ s.res \in {0, s.r}
            /\ \A a \in finished[s.pi] :
                   recs[a] = recs[s.r] =>
                       /\ s.res = s.r <=> Forwarded(s.pi, a)
                       /\ s.res = 0 <=> ~Forwarded(s.pi, a)

\* Process returned a record and a worker forwarded a record of the same
\* value
C29_Witness ==
    /\ outSet
    /\ \E s \in syncRes :
           /\ s.res = s.r
           /\ \E a \in finished[s.pi] :
                  /\ recs[a] = recs[s.r]
                  /\ Forwarded(s.pi, a)

\* C30: ProcessAsync and StopWorkers interleave in any order without a
\* fault: once StopWorkers has closed the intake channel no ProcessAsync
\* sends on it, so the process has not panicked, and no record is accepted
\* by the channel after the close.
C30_ShutdownRaceSafe ==
    stopPc[1] # "idle" =>
        /\ ~faulted
        /\ AcceptedSet(1) \subseteq (atClose[1] \cup finished[1])

====
